---- MODULE Spec2Model ----
(***************************************************************************)
(* BI-Copilot: the SQL safety gate, limit normalisation, the cached,       *)
(* timeout-bounded query executor and the connection pool, the plan-to-SQL *)
(* compiler and the chart shape engine.                                    *)
(*                                                                         *)
(* SQL text is a sequence of one-character strings, so that the gate's     *)
(* scanning (upper-casing, word boundaries, stripping) is computed on the  *)
(* characters as the Python code computes it.                              *)
(***************************************************************************)
EXTENDS Integers, Sequences, FiniteSets, TLC

(***************************************************************************)
(* Bounds of the model.                                                    *)
(***************************************************************************)
\* Number of pieces (single characters or one token) a gate input is built from.
MaxParts == 3
\* Concurrent request tasks calling SQLGenerator.execute_sql.
NumTasks == 2
\* Completed execute_sql calls recorded in one behaviour.
MaxCalls == 2
\* TTL expiries of one cache key in one behaviour.
MaxExpire == 1
\* Metrics, dimensions, filters and joins of a plan, counted together.
MaxItems == 4
\* Rows the database answers to a compiled statement.
MaxRows == 1
\* Columns of a query result handed to the chart shape engine.
MaxCols == 3

(***************************************************************************)
(* Program constants.                                                      *)
(***************************************************************************)
\* Settings.max_rows
max_rows == 10000
\* create_async_engine(pool_size=5, ...)
pool_size == 5
\* create_async_engine(max_overflow=10, ...)
max_overflow == 10

(***************************************************************************)
(* Characters and Python's str methods.                                    *)
(***************************************************************************)
LowerLetters == <<"a", "b", "c", "d", "e", "f", "g", "h", "i", "j", "k", "l", "m", "n", "o", "p", "q", "r", "s", "t", "u", "v", "w", "x", "y", "z">>
UpperLetters == <<"A", "B", "C", "D", "E", "F", "G", "H", "I", "J", "K", "L", "M", "N", "O", "P", "Q", "R", "S", "T", "U", "V", "W", "X", "Y", "Z">>
Digits == {"0", "1", "2", "3", "4", "5", "6", "7", "8", "9"}
DigitSeq == <<"0", "1", "2", "3", "4", "5", "6", "7", "8", "9">>
Letters == {LowerLetters[i] : i \in 1..26} \cup {UpperLetters[i] : i \in 1..26}

\* Python's str.isspace() characters that occur in the model.
Whitespace == {" ", "\n", "\t"}

\* The characters regex \w matches: letters, digits and the underscore.
WordChars == Letters \cup Digits \cup {"_"}
IsWordChar(c) == c \in WordChars

\* The upper-case form of each lower-case letter.
UpperOf ==
    [c \in {LowerLetters[i] : i \in 1..26} |->
        UpperLetters[CHOOSE i \in 1..26 : LowerLetters[i] = c]]

\* str.upper() on one character.
UpperChar(c) == IF c \in DOMAIN UpperOf THEN UpperOf[c] ELSE c

\* str.upper()
Upper(s) == <<>> \o [i \in 1..Len(s) |-> UpperChar(s[i])]

\* sub in s  (Python's substring test)
Contains(s, sub) ==
    \E i \in 1..(Len(s) - Len(sub) + 1) : SubSeq(s, i, i + Len(sub) - 1) = sub

\* Length of s with the trailing characters of set cs removed.
RECURSIVE RStripLen(_, _)
RStripLen(s, cs) ==
    IF Len(s) > 0 /\ s[Len(s)] \in cs THEN RStripLen(SubSeq(s, 1, Len(s) - 1), cs)
    ELSE Len(s)

\* str.rstrip(chars): every trailing character of cs is removed.
RStrip(s, cs) == SubSeq(s, 1, RStripLen(s, cs))

\* Index of the first character of s outside cs (Len(s) + 1 if none).
RECURSIVE LStripIdx(_, _, _)
LStripIdx(s, cs, i) ==
    IF i <= Len(s) /\ s[i] \in cs THEN LStripIdx(s, cs, i + 1) ELSE i

\* str.lstrip(chars)
LStrip(s, cs) == SubSeq(s, LStripIdx(s, cs, 1), Len(s))

\* str.strip(): leading and trailing whitespace removed.
Strip(s) == LStrip(RStrip(s, Whitespace), Whitespace)

\* str(n) for a natural number: its decimal digits.
RECURSIVE DecStr(_)
DecStr(n) ==
    IF n < 10 THEN <<DigitSeq[n + 1]>>
    ELSE DecStr(n \div 10) \o <<DigitSeq[(n % 10) + 1]>>

(***************************************************************************)
(* Settings.SQL_FORBIDDEN_KEYWORDS, in list order.                         *)
(***************************************************************************)
SQL_FORBIDDEN_KEYWORDS ==
    << <<"I", "N", "S", "E", "R", "T">>,
       <<"U", "P", "D", "A", "T", "E">>,
       <<"D", "E", "L", "E", "T", "E">>,
       <<"D", "R", "O", "P">>,
       <<"C", "R", "E", "A", "T", "E">>,
       <<"A", "L", "T", "E", "R">>,
       <<"T", "R", "U", "N", "C", "A", "T", "E">>,
       <<"R", "E", "P", "L", "A", "C", "E">>,
       <<"M", "E", "R", "G", "E">>,
       <<"G", "R", "A", "N", "T">>,
       <<"R", "E", "V", "O", "K", "E">>,
       <<"E", "X", "E", "C">>,
       <<"E", "X", "E", "C", "U", "T", "E">>,
       <<"C", "A", "L", "L">> >>


\* The denylist as a set.
ForbiddenKeywords == {SQL_FORBIDDEN_KEYWORDS[k] : k \in 1..Len(SQL_FORBIDDEN_KEYWORDS)}

(***************************************************************************)
(* validate_sql_safety                                                     *)
(***************************************************************************)
\* Regex \b at the gap before position i of s (i in 1..Len(s)+1): exactly one
\* of the two neighbouring characters is a word character; beyond either end
\* of the text counts as a non-word character.
WordBoundary(s, i) ==
    LET before == i > 1 /\ IsWordChar(s[i - 1])
        after == i <= Len(s) /\ IsWordChar(s[i])
    IN before # after

\* A mutation of RegexSearchWord: the \b anchors are dropped (plain substring).
RegexSearchNoBoundary(keyword, s) == Contains(s, keyword)

\* re.search(r'\b' + keyword + r'\b', s); the first character is compared
\* before the whole slice.
RegexSearchWord(keyword, s) ==
    \E i \in 1..(Len(s) - Len(keyword) + 1) :
        /\ s[i] = keyword[1]
        /\ WordBoundary(s, i)
        /\ SubSeq(s, i, i + Len(keyword) - 1) = keyword
        /\ WordBoundary(s, i + Len(keyword))

\* Index of the first keyword of the denylist, in list order, found in
\* sql_upper; 0 if the loop ends without a match.
FirstForbidden(sql_upper) ==
    LET hits == {k \in 1..Len(SQL_FORBIDDEN_KEYWORDS) :
                    RegexSearchWord(SQL_FORBIDDEN_KEYWORDS[k], sql_upper)}
    IN IF hits = {} THEN 0 ELSE CHOOSE k \in hits : \A j \in hits : k <= j

\* "--" in sql or "/*" in sql
HasComment(sql) == Contains(sql, <<"-", "-">>) \/ Contains(sql, <<"/", "*">>)

\* A mutation of HasStackedSemicolon: trailing whitespace is not stripped first.
HasStackedSemicolonNoRstrip(sql) == Contains(RStrip(sql, {";"}), <<";">>)

\* ";" in sql.rstrip().rstrip(";")
HasStackedSemicolon(sql) ==
    Contains(RStrip(RStrip(sql, Whitespace), {";"}), <<";">>)

\* The (is_safe, error_message) pairs the function returns; the keyword of
\* the first message is kept apart from its fixed text.
Safe == [safe |-> TRUE, reason |-> "None", keyword |-> <<>>]
KeywordViolation(keyword) ==
    [safe |-> FALSE, reason |-> "Forbidden SQL keyword detected", keyword |-> keyword]
CommentViolation ==
    [safe |-> FALSE, reason |-> "SQL comments are not allowed", keyword |-> <<>>]
MultiStatementViolation ==
    [safe |-> FALSE, reason |-> "Multiple SQL statements are not allowed", keyword |-> <<>>]

\* A mutation of validate_sql_safety: the comment check runs before the keywords.
validate_sql_safety_comment_first(sql) ==
    LET k == FirstForbidden(Upper(sql))
    IN IF HasComment(sql) THEN CommentViolation
       ELSE IF k # 0 THEN KeywordViolation(SQL_FORBIDDEN_KEYWORDS[k])
       ELSE IF HasStackedSemicolon(sql) THEN MultiStatementViolation
       ELSE Safe

validate_sql_safety(sql) ==
    LET k == FirstForbidden(Upper(sql))
    IN IF k # 0 THEN KeywordViolation(SQL_FORBIDDEN_KEYWORDS[k])
       ELSE IF HasComment(sql) THEN CommentViolation
       ELSE IF HasStackedSemicolon(sql) THEN MultiStatementViolation
       ELSE Safe

(***************************************************************************)
(* inject_limit_clause                                                     *)
(***************************************************************************)
LimitWord == <<"L", "I", "M", "I", "T">>

\* f" LIMIT {limit}"
LimitSuffix(limit) == <<" ">> \o LimitWord \o <<" ">> \o DecStr(limit)

\* A mutation of inject_limit_clause: the row cap is appended in every case.
inject_limit_clause_always(sql, limit) ==
    RStrip(Strip(sql), {";"}) \o LimitSuffix(limit)

inject_limit_clause(sql, limit) ==
    LET stripped == RStrip(Strip(sql), {";"})
    IN IF ~Contains(Upper(stripped), LimitWord)
       THEN stripped \o LimitSuffix(limit)
       ELSE stripped


(***************************************************************************)
(* State.                                                                  *)
(***************************************************************************)
VARIABLES
    \* -- the gate applied to one SQL text (validate, then inject) --
    gsql,        \* the SQL text handed to the gate
    gpc,         \* "input" | "validated" | "injected"
    gverdict,    \* what validate_sql_safety returned
    gout,        \* what inject_limit_clause returned
    \* -- the compiler applied to one plan, and its statement executed --
    cplan,       \* the plan handed to generate_sql
    cpc,         \* "plan" | "compiled" | "executed"
    cout,        \* what generate_sql returned or raised
    cresult,     \* the QueryResult _execute built for the compiled statement
    \* -- the chart shape engine applied to one query result --
    kdata,       \* the query result handed to analyze_data_shape
    kpc,         \* "data" | "profiled" | "selected" | "built"
    data_shape,  \* what analyze_data_shape returned
    chart_type,  \* what select_chart_type returned
    chart_config, \* what build_chart_config returned or raised
    \* -- request tasks running SQLGenerator.execute_sql --
    pc,          \* per task: where its coroutine is suspended
    input,       \* per task: the sql argument of execute_sql
    final,       \* per task: sql as rebound by execute_query_safe after the gate
    verdict,     \* per task: the gate's verdict in this call
    held,        \* per task: the QueryResult _execute returned, before it is cached
    executed,    \* per task: this call's statement reached the database
    startIdx,    \* per task: how many calls had completed when this one started
    epochRead,   \* per task: the key's expiry count when get_cached read it
    conn,        \* per task: it holds a pooled connection (inside async with)
    timedOut,    \* per task: wait_for's deadline fired in this call
    rplan,        \* per task: the plan of generate_and_execute (NoPlan: execute_sql called directly)
    attempts,    \* per task: how many times this call sent its statement
    \* -- shared --
    cache,       \* the key/value store: the keys it holds -> serialized value
    epoch,       \* the keys that have expired -> how many times (TTL)
    available,   \* connections the pool can still hand out
    dbSent,      \* the statements that reached a database, with their origin
    calls,       \* completed execute_sql calls, in completion order
    hpc          \* the health check: "idle" | "connected"

gateVars == <<gsql, gpc, gverdict, gout>>
compilerVars == <<cplan, cpc, cout, cresult>>
chartVars == <<kdata, kpc, data_shape, chart_type, chart_config>>
pureVars == <<gateVars, compilerVars, chartVars>>
taskVars == <<pc, input, final, verdict, held, executed, startIdx, epochRead, conn, timedOut,
              rplan, attempts>>
sharedVars == <<cache, epoch, available, dbSent, calls, hpc>>
vars == <<gsql, gpc, gverdict, gout, cplan, cpc, cout, cresult, kdata, kpc, data_shape,
          chart_type, chart_config, pc, input, final, verdict, held, executed, startIdx, epochRead, conn,
          timedOut, rplan, attempts, cache, epoch, available, dbSent, calls, hpc>>

Tasks == 1..NumTasks

(***************************************************************************)
(* Inputs.                                                                 *)
(***************************************************************************)
\* All sequences over S of length at most n.
BoundedSeq(S, n) == UNION {[1..k -> S] : k \in 0..n}

RECURSIVE Concat(_)
Concat(ps) == IF ps = <<>> THEN <<>> ELSE Head(ps) \o Concat(Tail(ps))

\* str.lower() on one character, used to vary the letter case of the inputs.
LowerOf ==
    [c \in {UpperLetters[i] : i \in 1..26} |->
        LowerLetters[CHOOSE i \in 1..26 : UpperLetters[i] = c]]
LowerChar(c) == IF c \in DOMAIN LowerOf THEN LowerOf[c] ELSE c
Lower(s) == <<>> \o [i \in 1..Len(s) |-> LowerChar(s[i])]
Capitalized(s) == [i \in 1..Len(s) |-> IF i = 1 THEN s[i] ELSE LowerChar(s[i])]

\* The multi-character tokens of the gate inputs: every denylisted keyword and
\* LIMIT, in upper, lower and mixed case.
GateTokens ==
    UNION {{w, Lower(w), Capitalized(w)} : w \in ForbiddenKeywords \cup {LimitWord}}

\* The small pieces of the gate inputs: a blank, a letter, the underscore, a
\* digit, the statement separator, one dash (two make a comment marker) and
\* the other comment marker.
GateAtoms == {<<" ">>, <<"x">>, <<"_">>, <<"1">>, <<";">>, <<"-">>, <<"/", "*">>}

\* The SQL texts the request tasks pass to execute_sql: a safe statement, the
\* same statement with a terminator, and a statement the gate rejects.
SqlX == <<"x">>
SqlXSemi == <<"x", ";">>
SqlDrop == <<"d", "r", "o", "p">>
ExecInputs == {SqlX, SqlXSemi, SqlDrop}

\* The statement of the database health check.
SelectOne == <<"S", "E", "L", "E", "C", "T", " ", "1">>

(***************************************************************************)
(* Analysis plans: Python dicts are functions on the keys they hold; a     *)
(* str is a sequence of characters.                                        *)
(***************************************************************************)
\* dict.get(key, default)
Get(d, key, default) == IF key \in DOMAIN d THEN d[key] ELSE default

\* Python's None where a str is expected (no text is this sequence: a text
\* holds one character per element).
None == <<"None">>

\* bool(value) for None and for a str.
Truthy(value) == value # None /\ value # <<>>

\* sep.join(parts)
RECURSIVE Join(_, _)
Join(sep, parts) ==
    IF parts = <<>> THEN <<>>
    ELSE IF Len(parts) = 1 THEN parts[1]
    ELSE parts[1] \o sep \o Join(sep, Tail(parts))

\* [part for part in parts if part]
RECURSIVE NonEmptyParts(_)
NonEmptyParts(parts) ==
    IF parts = <<>> THEN <<>>
    ELSE IF Head(parts) = <<>> THEN NonEmptyParts(Tail(parts))
    ELSE <<Head(parts)>> \o NonEmptyParts(Tail(parts))

\* col.split('.')[-1]: what follows the last dot, the whole text without one.
LastSegment(col) ==
    LET dots == {i \in 1..Len(col) : col[i] = "."}
    IN IF dots = {} THEN col
       ELSE SubSeq(col, (CHOOSE i \in dots : \A j \in dots : j <= i) + 1, Len(col))

\* f"{val}" of a filter value, a str being put between single quotes first.
FilterValue(val) == IF val.t = "str" THEN <<"'">> \o val.v \o <<"'">> ELSE val.v

\* The fixed pieces of text of the templates.
CommaSpace == <<",", " ">>
Newline == <<"\n">>
Star == <<"*">>
AndSep == <<" ", "A", "N", "D", " ">>
SelectSp == <<"S", "E", "L", "E", "C", "T", " ">>
FromSp == <<"F", "R", "O", "M", " ">>
JoinSp == <<"J", "O", "I", "N", " ">>
OnSp == <<" ", "O", "N", " ">>
EqSp == <<" ", "=", " ">>
AsSp == <<" ", "A", "S", " ">>
WhereSp == <<"W", "H", "E", "R", "E", " ">>
GroupBySp == <<"G", "R", "O", "U", "P", " ", "B", "Y", " ">>
OrderBySp == <<"O", "R", "D", "E", "R", " ", "B", "Y", " ">>
DescSp == <<" ", "D", "E", "S", "C">>
LimitSp == <<"L", "I", "M", "I", "T", " ">>
DefaultAggregation == <<"S", "U", "M">>

\* The exception a dict lookup d[key] raises on a dict without the key.
LacksKey(dicts, keys) ==
    \E i \in 1..Len(dicts) : \E k \in keys : k \notin DOMAIN dicts[i]

\* What a compilation gives: the SQL text, or the exception raised.
Compiled(sql) == [raised |-> "None", sql |-> sql]
Raised(exception) == [raised |-> exception, sql |-> <<>>]

\* A mutation of WhereClause: the keyword is written also without filters.
WhereClauseDangling(filters) ==
    LET where_parts ==
            [i \in 1..Len(filters) |->
                filters[i]["column"] \o <<" ">> \o filters[i]["operator"]
                    \o <<" ">> \o FilterValue(filters[i]["value"])]
    IN WhereSp \o Join(AndSep, where_parts)

\* The WHERE clause both templates build: one "col op val" term per filter.
WhereClause(filters) ==
    LET where_parts ==
            [i \in 1..Len(filters) |->
                filters[i]["column"] \o <<" ">> \o filters[i]["operator"]
                    \o <<" ">> \o FilterValue(filters[i]["value"])]
    IN IF where_parts # <<>> THEN WhereSp \o Join(AndSep, where_parts) ELSE <<>>

\* The output alias of a metric: <last segment of column>_<agg, lower-cased>.
MetricAlias(metric) ==
    LastSegment(metric["column"]) \o <<"_">>
        \o Lower(Get(metric, "aggregation", DefaultAggregation))

\* A mutation of GroupByClause: only the first dimension is grouped by.
GroupByClauseFirstOnly(dimensions, metrics) ==
    IF dimensions # <<>> /\ metrics # <<>>
    THEN GroupBySp \o dimensions[1] ELSE <<>>

\* build_select_query: the GROUP BY clause.
GroupByClause(dimensions, metrics) ==
    IF dimensions # <<>> /\ metrics # <<>>
    THEN GroupBySp \o Join(CommaSpace, dimensions) ELSE <<>>

\* A mutation of OrderByClause: the last metric gives the ordering key.
OrderByClauseLast(metrics) ==
    IF metrics # <<>> THEN OrderBySp \o MetricAlias(metrics[Len(metrics)]) \o DescSp ELSE <<>>

\* build_select_query: the ORDER BY clause, by the first metric's alias.
OrderByClause(metrics) ==
    IF metrics # <<>> THEN OrderBySp \o MetricAlias(metrics[1]) \o DescSp ELSE <<>>

\* build_select_query
build_select_query(table, metrics, dimensions, filters, aggregations, limit, joins) ==
    LET use_prefixes == Len(joins) > 0
        metric_part(metric) ==
            LET col == metric["column"]
                agg == Get(metric, "aggregation", DefaultAggregation)
                metric_table == Get(metric, "table", table)
                col_ref == IF use_prefixes /\ ~Contains(col, <<".">>)
                           THEN metric_table \o <<".">> \o col
                           ELSE col
            IN agg \o <<"(">> \o col_ref \o <<")">> \o AsSp \o MetricAlias(metric)
        select_parts ==
            dimensions \o [i \in 1..Len(metrics) |-> metric_part(metrics[i])]
        select_clause == IF select_parts # <<>> THEN Join(CommaSpace, select_parts) ELSE Star
        from_clause == FromSp \o table
        join_clauses ==
            [i \in 1..Len(joins) |->
                LET join == joins[i]
                    join_table == join["table"]
                    join_from_table == Get(join, "join_from", table)
                IN JoinSp \o join_table \o OnSp \o join_from_table \o <<".">>
                       \o join["from_column"] \o EqSp \o join_table \o <<".">>
                       \o join["on_column"]]
        where_clause == WhereClause(filters)
        group_by_clause == GroupByClause(dimensions, metrics)
        order_by_clause == OrderByClause(metrics)
        limit_clause == LimitSp \o DecStr(limit)
        query_parts ==
            <<SelectSp \o select_clause, from_clause>> \o join_clauses
                \o <<where_clause, group_by_clause, order_by_clause, limit_clause>>
    IN IF LacksKey(metrics, {"column"}) \/ LacksKey(joins, {"table", "on_column", "from_column"})
          \/ LacksKey(filters, {"column", "operator", "value"})
       THEN Raised("KeyError")
       ELSE Compiled(Join(Newline, NonEmptyParts(query_parts)))

\* build_simple_select; columns is <<>> for Python's None.
build_simple_select(table, columns, filters, limit) ==
    LET select_clause == IF columns # <<>> THEN Join(CommaSpace, columns) ELSE Star
        from_clause == FromSp \o table
        where_clause == WhereClause(filters)
        limit_clause == LimitSp \o DecStr(limit)
        query_parts == <<SelectSp \o select_clause, from_clause, where_clause, limit_clause>>
    IN IF LacksKey(filters, {"column", "operator", "value"})
       THEN Raised("KeyError")
       ELSE Compiled(Join(Newline, NonEmptyParts(query_parts)))

\* SQLGenerator.generate_sql
generate_sql(plan) ==
    IF "table" \notin DOMAIN plan THEN Raised("KeyError")
    ELSE
    LET table == plan["table"]
        metrics == Get(plan, "metrics", <<>>)
        dimensions == Get(plan, "dimensions", <<>>)
        filters == Get(plan, "filters", <<>>)
        joins == Get(plan, "joins", <<>>)
    IN IF LacksKey(metrics, {"column"}) THEN Raised("KeyError")
       ELSE
       LET aggregations ==
               [c \in {metrics[i]["column"] : i \in 1..Len(metrics)} |->
                   LET last == CHOOSE i \in 1..Len(metrics) :
                                   /\ metrics[i]["column"] = c
                                   /\ \A j \in 1..Len(metrics) :
                                          metrics[j]["column"] = c => j <= i
                   IN Get(metrics[last], "aggregation", DefaultAggregation)]
       IN IF metrics # <<>>
             /\ \E i \in 1..Len(metrics) : Truthy(Get(metrics[i], "aggregation", None))
          THEN build_select_query(table, metrics, dimensions, filters, aggregations,
                                  max_rows, joins)
          ELSE build_simple_select(table, dimensions, filters, max_rows)

(***************************************************************************)
(* The chart shape engine (chart_mapper.py).                               *)
(***************************************************************************)
\* The substrings of a column name that make a str column a date column.
DateKeywords == {<<"d", "a", "t", "e">>, <<"t", "i", "m", "e">>, <<"y", "e", "a", "r">>, <<"m", "o", "n", "t", "h">>, <<"d", "a", "y">>}

\* The substrings of a column name that mark an aggregated result.
AggregationMarks == {<<"s", "u", "m">>, <<"a", "v", "g">>, <<"c", "o", "u", "n", "t">>, <<"m", "i", "n">>, <<"m", "a", "x">>}

\* isinstance(value, (int, float)); bool is a subclass of int.
IsNumeric(value) == value.t \in {"int", "float", "bool"}

\* A mutation of analyze_data_shape: the date words are looked for in the
\* column name as written, not in its lower-cased form.
analyze_data_shape_case_sensitive(d) ==
    LET columns == Get(d, "columns", <<>>)
        rows == Get(d, "rows", <<>>)
    IN IF rows = <<>>
       THEN [num_columns |-> Len(columns), num_rows |-> 0, has_time_series |-> FALSE,
             numeric_columns |-> <<>>, text_columns |-> <<>>, is_aggregated |-> FALSE]
       ELSE
       LET first_row == rows[1]
           value(col) == Get(first_row, col, [t |-> "None"])
           is_date_name(col) == \E keyword \in DateKeywords : Contains(col, keyword)
           is_numeric(col) == IsNumeric(value(col))
           is_date(col) == value(col).t = "str" /\ is_date_name(col)
           is_text(col) == value(col).t = "str" /\ ~is_date_name(col)
           numeric_columns == SelectSeq(columns, is_numeric)
           text_columns == SelectSeq(columns, is_text)
           date_columns == SelectSeq(columns, is_date)
       IN [num_columns |-> Len(columns), num_rows |-> Len(rows),
           has_time_series |-> Len(date_columns) > 0 /\ Len(numeric_columns) > 0,
           numeric_columns |-> numeric_columns, text_columns |-> text_columns,
           date_columns |-> date_columns,
           is_aggregated |->
               \E i \in 1..Len(columns) : \E agg \in AggregationMarks :
                   Contains(Lower(columns[i]), agg)]

\* analyze_data_shape
analyze_data_shape(d) ==
    LET columns == Get(d, "columns", <<>>)
        rows == Get(d, "rows", <<>>)
    IN IF rows = <<>>
       THEN [num_columns |-> Len(columns), num_rows |-> 0, has_time_series |-> FALSE,
             numeric_columns |-> <<>>, text_columns |-> <<>>, is_aggregated |-> FALSE]
       ELSE
       LET first_row == rows[1]
           value(col) == Get(first_row, col, [t |-> "None"])
           is_date_name(col) == \E keyword \in DateKeywords : Contains(Lower(col), keyword)
           is_numeric(col) == IsNumeric(value(col))
           is_date(col) == value(col).t = "str" /\ is_date_name(col)
           is_text(col) == value(col).t = "str" /\ ~is_date_name(col)
           numeric_columns == SelectSeq(columns, is_numeric)
           text_columns == SelectSeq(columns, is_text)
           date_columns == SelectSeq(columns, is_date)
       IN [num_columns |-> Len(columns), num_rows |-> Len(rows),
           has_time_series |-> Len(date_columns) > 0 /\ Len(numeric_columns) > 0,
           numeric_columns |-> numeric_columns, text_columns |-> text_columns,
           date_columns |-> date_columns,
           is_aggregated |->
               \E i \in 1..Len(columns) : \E agg \in AggregationMarks :
                   Contains(Lower(columns[i]), agg)]

\* A mutation of select_chart_type: a shape no rule matches is a line chart.
select_chart_type_line_fallback(shape) ==
    LET num_numeric == Len(shape.numeric_columns)
        num_text == Len(shape.text_columns)
    IN IF shape.num_columns = 1 /\ shape.num_rows = 1 THEN "kpi"
       ELSE IF shape.has_time_series /\ num_numeric >= 1 THEN "line"
       ELSE IF num_text >= 1 /\ num_numeric >= 1 THEN "bar"
       ELSE IF num_numeric >= 2 /\ num_text = 0 THEN "scatter"
       ELSE IF shape.num_rows <= 10 /\ num_text = 1 /\ num_numeric = 1 THEN "pie"
       ELSE "line"

\* A mutation of select_chart_type: the bar rule is tried before the line rule.
select_chart_type_bar_first(shape) ==
    LET num_numeric == Len(shape.numeric_columns)
        num_text == Len(shape.text_columns)
    IN IF shape.num_columns = 1 /\ shape.num_rows = 1 THEN "kpi"
       ELSE IF num_text >= 1 /\ num_numeric >= 1 THEN "bar"
       ELSE IF shape.has_time_series /\ num_numeric >= 1 THEN "line"
       ELSE IF num_numeric >= 2 /\ num_text = 0 THEN "scatter"
       ELSE IF shape.num_rows <= 10 /\ num_text = 1 /\ num_numeric = 1 THEN "pie"
       ELSE "table"

\* select_chart_type
select_chart_type(shape) ==
    LET num_cols == shape.num_columns
        num_rows == shape.num_rows
        has_time == shape.has_time_series
        num_numeric == Len(shape.numeric_columns)
        num_text == Len(shape.text_columns)
    IN IF num_cols = 1 /\ num_rows = 1 THEN "kpi"
       ELSE IF has_time /\ num_numeric >= 1 THEN "line"
       ELSE IF num_text >= 1 /\ num_numeric >= 1 THEN "bar"
       ELSE IF num_numeric >= 2 /\ num_text = 0 THEN "scatter"
       ELSE IF num_rows <= 10 /\ num_text = 1 /\ num_numeric = 1 THEN "pie"
       ELSE "table"

\* What build_chart_config gives: the config dict, or the exception raised.
Built(config) == [raised |-> "None", config |-> config]
BuildRaised(exception) == [raised |-> exception, config |-> [type |-> "None"]]

\* A mutation of build_chart_config: the bar chart's y axis is the last column.
build_chart_config_bar_last(type, d, shape) ==
    LET columns == Get(d, "columns", <<>>)
        rows == Get(d, "rows", <<>>)
        config == [type |-> type, data |-> rows, columns |-> columns]
    IN IF type = "bar" /\ columns # <<>>
       THEN Built(config @@ [xAxis |-> IF shape["text_columns"] # <<>>
                                        THEN shape["text_columns"][1] ELSE columns[1],
                             yAxis |-> columns[Len(columns)]])
       ELSE Built(config)

\* build_chart_config; seq[0], seq[1] and seq[-1] raise IndexError on a list
\* too short, d[key] raises KeyError on a dict without the key.
build_chart_config(type, d, shape) ==
    LET columns == Get(d, "columns", <<>>)
        rows == Get(d, "rows", <<>>)
        config == [type |-> type, data |-> rows, columns |-> columns]
    IN CASE type = "kpi" ->
              IF rows # <<>> /\ columns # <<>>
              THEN IF columns[1] \notin DOMAIN rows[1] THEN BuildRaised("KeyError")
                   ELSE Built(config @@ [metric |-> [label |-> columns[1],
                                                     value |-> rows[1][columns[1]]]])
              ELSE Built(config)
         [] type = "line" ->
              IF "date_columns" \notin DOMAIN shape THEN BuildRaised("KeyError")
              ELSE IF shape["date_columns"] = <<>> /\ columns = <<>>
              THEN BuildRaised("IndexError")
              ELSE Built(config @@ [xAxis |-> IF shape["date_columns"] # <<>>
                                               THEN shape["date_columns"][1] ELSE columns[1],
                                    yAxis |-> shape["numeric_columns"]])
         [] type = "bar" ->
              IF (shape["text_columns"] = <<>> \/ shape["numeric_columns"] = <<>>)
                 /\ columns = <<>>
              THEN BuildRaised("IndexError")
              ELSE Built(config @@ [xAxis |-> IF shape["text_columns"] # <<>>
                                               THEN shape["text_columns"][1] ELSE columns[1],
                                    yAxis |-> IF shape["numeric_columns"] # <<>>
                                               THEN shape["numeric_columns"][1]
                                               ELSE columns[Len(columns)]])
         [] type = "pie" ->
              IF (shape["text_columns"] = <<>> \/ shape["numeric_columns"] = <<>>)
                 /\ columns = <<>>
              THEN BuildRaised("IndexError")
              ELSE Built(config @@ [labelColumn |-> IF shape["text_columns"] # <<>>
                                                     THEN shape["text_columns"][1]
                                                     ELSE columns[1],
                                    valueColumn |-> IF shape["numeric_columns"] # <<>>
                                                     THEN shape["numeric_columns"][1]
                                                     ELSE columns[Len(columns)]])
         [] type = "scatter" ->
              LET numeric_cols == shape["numeric_columns"]
              IN IF Len(numeric_cols) <= 1 /\ columns = <<>>
                 THEN BuildRaised("IndexError")
                 ELSE Built(config @@ [xAxis |-> IF Len(numeric_cols) > 0
                                                  THEN numeric_cols[1] ELSE columns[1],
                                       yAxis |-> IF Len(numeric_cols) > 1 THEN numeric_cols[2]
                                                  ELSE IF Len(columns) > 1 THEN columns[2]
                                                  ELSE columns[1]])
         [] OTHER -> Built(config)

(***************************************************************************)
(* The database's answers and their materialisation (_execute).            *)
(***************************************************************************)
IntValue == [t |-> "int", v |-> "7"]
DecimalValue == [t |-> "Decimal", v |-> "7.50"]

\* What the driver hands back: result.keys() and result.fetchall().
ResultSets ==
    { [keys |-> <<"a">>, rows |-> <<>>],
      [keys |-> <<"a">>, rows |-> << <<IntValue>> >>],
      [keys |-> <<"a">>, rows |-> << <<DecimalValue>> >>] }

\* dict(zip(columns, row)): a later pair with the same key replaces an earlier one.
DictZip(columns, row) ==
    LET n == IF Len(columns) < Len(row) THEN Len(columns) ELSE Len(row)
    IN [c \in {columns[i] : i \in 1..n} |->
           row[CHOOSE i \in 1..n : columns[i] = c /\ \A j \in 1..n : columns[j] = c => j <= i]]

\* The dict _execute returns.
Materialize(rs) ==
    LET columns == IF rs.rows # <<>> THEN rs.keys ELSE <<>>
        data == [i \in 1..Len(rs.rows) |-> DictZip(columns, rs.rows[i])]
    IN [columns |-> columns, rows |-> data, row_count |-> Len(data)]

\* Python's None where a QueryResult is expected.
NoResult == [columns |-> <<>>, rows |-> <<>>, row_count |-> -1]

(***************************************************************************)
(* The plans handed to the compiler.                                       *)
(***************************************************************************)
\* The plan of a task that called execute_sql directly.
NoPlan == [t |-> "None"]

TableT == <<"t">>
TableU == <<"u">>
TableV == <<"v">>
ColumnA == <<"a">>
ColumnB == <<"b">>
ColumnUA == <<"u", ".", "a">>
ColumnC == <<"c">>
ColumnD == <<"d">>
ColumnUE == <<"u", ".", "e">>
ColumnK == <<"k">>
AggSum == <<"S", "U", "M">>
AggMedian == <<"M", "E", "D", "I", "A", "N">>
OpEq == <<"=">>
OpLike == <<"L", "I", "K", "E">>

\* A plan dict without the key "table", with an empty table, with a table.
NoTable == <<"missing">>
TableChoices == {NoTable, <<>>, TableT}

\* Metrics: an aggregation of the enum, none, one outside the enum, and a
\* metric on a joined table whose alias equals the first one's.
MetricChoices ==
    { [column |-> ColumnA, aggregation |-> AggSum],
      [column |-> ColumnB],
      [column |-> ColumnA, aggregation |-> AggMedian],
      [column |-> ColumnUA, aggregation |-> AggSum, table |-> TableU] }

\* Dimensions: a bare column and one with its table prefix.
DimensionChoices == {ColumnD, ColumnUE}

\* Filters: an operator of the set with a number, LIKE with a str.
FilterChoices ==
    { [column |-> ColumnC, operator |-> OpEq, value |-> [t |-> "int", v |-> <<"5">>]],
      [column |-> ColumnC, operator |-> OpLike, value |-> [t |-> "str", v |-> <<"x">>]] }

\* Joins: u from the root, v from u (a forward reference unless u was joined
\* before), u from the root by default.
JoinChoices ==
    { [table |-> TableU, on_column |-> ColumnK, from_column |-> ColumnK, join_from |-> TableT],
      [table |-> TableV, on_column |-> ColumnK, from_column |-> ColumnK, join_from |-> TableU],
      [table |-> TableU, on_column |-> ColumnK, from_column |-> ColumnK] }

\* The dict the plan producer hands over.
MakePlan(table, metrics, dimensions, filters, joins) ==
    LET rest == [metrics |-> metrics, dimensions |-> dimensions,
                 filters |-> filters, joins |-> joins]
    IN IF table = NoTable THEN rest ELSE [table |-> table] @@ rest

\* The plans of the request tasks: a simple select, a plan without a table,
\* and a plan whose table name the gate rejects.
RequestPlans ==
    { MakePlan(TableT, <<>>, <<>>, <<>>, <<>>),
      MakePlan(NoTable, <<>>, <<>>, <<>>, <<>>),
      MakePlan(SqlDrop, <<>>, <<>>, <<>>, <<>>) }

(***************************************************************************)
(* The query results handed to the chart shape engine.                     *)
(***************************************************************************)
ColCategory == <<"c", "a", "t", "e", "g", "o", "r", "y">>
ColCountId == <<"c", "o", "u", "n", "t", "_", "i", "d">>
ColSaleDate == <<"S", "a", "l", "e", "_", "D", "a", "t", "e">>
ChartColumns == {ColCategory, ColCountId, ColSaleDate}

\* The first row's value of a column: a number, a str, NULL, a bool.
ChartValues ==
    {IntValue, [t |-> "str", v |-> "east"], [t |-> "None", v |-> "None"],
     [t |-> "bool", v |-> "True"]}

\* How many rows the result has; every row is like the first one.
RowCounts == {0, 1, 3, 10, 11}

\* The query result with these columns, n rows and this first row.
MakeData(columns, first_row, n) ==
    [columns |-> IF n > 0 THEN columns ELSE <<>>,
     rows |-> <<>> \o [i \in 1..n |-> first_row], row_count |-> n]

(***************************************************************************)
(* The cache (cache.py) as the key/value service it talks to.              *)
(***************************************************************************)
\* hashlib.sha256(text.encode()).hexdigest()[:16], kept symbolic: equal texts
\* give equal digests and, within the model's texts, different texts differ.
Sha256Hex16(text) == <<"sha256", text>>

\* generate_cache_key(prefix, *args) for the one argument execute_sql passes.
generate_cache_key(prefix, arg) == <<prefix, Sha256Hex16(arg)>>

\* A mutation of CacheKey: the key is taken from the text after limit normalisation.
CacheKeyOfFinal(sql) ==
    generate_cache_key("sql_result", Sha256Hex16(inject_limit_clause(sql, max_rows)))

\* execute_sql: sql_hash, then cache_key, from the sql argument as passed in.
CacheKey(sql) == generate_cache_key("sql_result", Sha256Hex16(sql))

\* json.dumps(value) raises TypeError on a value json cannot encode.
JsonSerializable(value) ==
    \A i \in 1..Len(value.rows) : \A c \in DOMAIN value.rows[i] :
        value.rows[i][c].t \in {"int", "float", "bool", "str", "None"}

\* json.dumps / json.loads, kept symbolic: the stored string determines the value.
JsonDumps(value) == [json |-> value]
JsonLoads(serialized) == serialized.json

\* A mutation of get_cached: every lookup misses.
get_cached_miss(key) == NoResult

\* get_cached(key): redis.get gives nothing for a key that is absent or has
\* expired, and the function returns None; otherwise the decoded value.
get_cached(key) == IF key \in DOMAIN cache THEN JsonLoads(cache[key]) ELSE NoResult

\* How many times the entry of key has expired.
EpochOf(key) == IF key \in DOMAIN epoch THEN epoch[key] ELSE 0


(***************************************************************************)
(* Initial states.                                                         *)
(***************************************************************************)
\* The verdict of a path on which validate_sql_safety is never called.
NotCalled == [safe |-> FALSE, reason |-> "not called", keyword |-> <<>>]

\* What the pool can hand out: pool_size connections plus max_overflow.
PoolCapacity == pool_size + max_overflow

TasksIdle ==
    /\ pc = [p \in Tasks |-> "idle"]
    /\ input = [p \in Tasks |-> <<>>]
    /\ final = [p \in Tasks |-> <<>>]
    /\ verdict = [p \in Tasks |-> NotCalled]
    /\ held = [p \in Tasks |-> NoResult]
    /\ executed = [p \in Tasks |-> FALSE]
    /\ startIdx = [p \in Tasks |-> 0]
    /\ epochRead = [p \in Tasks |-> 0]
    /\ conn = [p \in Tasks |-> FALSE]
    /\ timedOut = [p \in Tasks |-> FALSE]
    /\ rplan = [p \in Tasks |-> NoPlan]
    /\ attempts = [p \in Tasks |-> 0]

SharedInit ==
    /\ cache = [k \in {} |-> JsonDumps(NoResult)]
    /\ epoch = [k \in {} |-> 0]
    /\ available = PoolCapacity
    /\ dbSent = {}
    /\ calls = <<>>
    /\ hpc = "idle"

GateOff ==
    /\ gsql = <<>>
    /\ gpc = "off"
    /\ gverdict = NotCalled
    /\ gout = <<>>

\* generate_sql not called yet.
NotCompiled == [raised |-> "not called", sql |-> <<>>]

CompilerOff ==
    /\ cplan = NoPlan
    /\ cpc = "off"
    /\ cout = NotCompiled
    /\ cresult = NoResult

\* analyze_data_shape not called yet.
NoShape == [num_columns |-> 0, num_rows |-> 0, has_time_series |-> FALSE,
            numeric_columns |-> <<>>, text_columns |-> <<>>, is_aggregated |-> FALSE]

NotBuilt == [raised |-> "not called", config |-> [type |-> "None"]]

ChartOff ==
    /\ kdata = NoResult
    /\ kpc = "off"
    /\ data_shape = NoShape
    /\ chart_type = "None"
    /\ chart_config = NotBuilt

\* The service after start-up: no request in flight, an empty cache, a full pool.
Init == GateOff /\ CompilerOff /\ ChartOff /\ TasksIdle /\ SharedInit

\* The gate alone, handed one SQL text of at most MaxParts pieces: small
\* pieces and one token, which may occur several times.
GateInit ==
    /\ \E tok \in GateTokens :
          \E ps \in BoundedSeq(GateAtoms \cup {tok}, MaxParts) : gsql = Concat(ps)
    /\ gpc = "input"
    /\ gverdict = NotCalled
    /\ gout = <<>>
    /\ CompilerOff
    /\ ChartOff
    /\ TasksIdle
    /\ SharedInit

(***************************************************************************)
(* The gate as execute_query_safe applies it: validate, then inject.       *)
(***************************************************************************)
GateValidate ==
    /\ gpc = "input"
    /\ gverdict' = validate_sql_safety(gsql)
    /\ gpc' = "validated"
    /\ UNCHANGED <<gsql, gout, compilerVars, chartVars, taskVars, sharedVars>>

GateInject ==
    /\ gpc = "validated"
    /\ gverdict.safe
    /\ gout' = inject_limit_clause(gsql, max_rows)
    /\ gpc' = "injected"
    /\ UNCHANGED <<gsql, gverdict, compilerVars, chartVars, taskVars, sharedVars>>

GateNext == GateValidate \/ GateInject

SpecGate == GateInit /\ [][GateNext]_vars

(***************************************************************************)
(* The compiler applied to one plan, and the compiled statement executed.  *)
(***************************************************************************)
\* One plan with at most MaxItems metrics, dimensions, filters and joins in all.
CompilerInit ==
    /\ \E table \in TableChoices :
       \E metrics \in BoundedSeq(MetricChoices, MaxItems) :
       \E dimensions \in BoundedSeq(DimensionChoices, MaxItems - Len(metrics)) :
       \E filters \in BoundedSeq(FilterChoices, MaxItems - Len(metrics) - Len(dimensions)) :
       \E joins \in BoundedSeq(JoinChoices,
                                MaxItems - Len(metrics) - Len(dimensions) - Len(filters)) :
           cplan = MakePlan(table, metrics, dimensions, filters, joins)
    /\ cpc = "plan"
    /\ cout = NotCompiled
    /\ cresult = NoResult
    /\ GateOff
    /\ ChartOff
    /\ TasksIdle
    /\ SharedInit

\* SQLGenerator.generate_sql(plan)
GenerateSql ==
    /\ cpc = "plan"
    /\ cout' = generate_sql(cplan)
    /\ cpc' = "compiled"
    /\ UNCHANGED <<cplan, cresult, gateVars, chartVars, taskVars, sharedVars>>

\* The names the database gives the output columns of the compiled statement:
\* a dimension's name without its table prefix, a metric's alias, and for
\* SELECT * the columns of the table.
OutputNames(p) ==
    LET metrics == Get(p, "metrics", <<>>)
        dimensions == Get(p, "dimensions", <<>>)
        dimension_names == [i \in 1..Len(dimensions) |-> LastSegment(dimensions[i])]
        aggregate == /\ metrics # <<>>
                     /\ \E i \in 1..Len(metrics) :
                            Truthy(Get(metrics[i], "aggregation", None))
    IN IF aggregate
       THEN dimension_names \o [i \in 1..Len(metrics) |-> MetricAlias(metrics[i])]
       ELSE IF dimensions # <<>> THEN dimension_names
       ELSE <<ColumnA>>

\* execute_query_safe on the compiled statement: the gate passes it, the
\* database answers n rows, _execute builds the QueryResult.
ExecuteCompiled ==
    /\ cpc = "compiled"
    /\ cout.raised = "None"
    /\ validate_sql_safety(cout.sql).safe
    /\ \E n \in 0..MaxRows :
          LET keys == OutputNames(cplan)
              row == [i \in 1..Len(keys) |-> IntValue]
              rows == [i \in 1..n |-> row]
          IN cresult' = Materialize([keys |-> keys, rows |-> rows])
    /\ cpc' = "executed"
    /\ UNCHANGED <<cplan, cout, gateVars, chartVars, taskVars, sharedVars>>

CompilerNext == GenerateSql \/ ExecuteCompiled

SpecCompiler == CompilerInit /\ [][CompilerNext]_vars

(***************************************************************************)
(* The chart shape engine applied to one query result.                     *)
(***************************************************************************)
\* One query result of one to MaxCols columns; _execute gives a result
\* without rows an empty column list.
ChartInit ==
    /\ \E columns \in BoundedSeq(ChartColumns, MaxCols) \ {<<>>} :
       \E first_row \in [{columns[i] : i \in 1..Len(columns)} -> ChartValues] :
       \E n \in RowCounts :
           kdata = MakeData(columns, first_row, n)
    /\ kpc = "data"
    /\ data_shape = NoShape
    /\ chart_type = "None"
    /\ chart_config = NotBuilt
    /\ GateOff
    /\ CompilerOff
    /\ TasksIdle
    /\ SharedInit

AnalyzeDataShape ==
    /\ kpc = "data"
    /\ data_shape' = analyze_data_shape(kdata)
    /\ kpc' = "profiled"
    /\ UNCHANGED <<kdata, chart_type, chart_config, gateVars, compilerVars, taskVars,
                   sharedVars>>

SelectChartType ==
    /\ kpc = "profiled"
    /\ chart_type' = select_chart_type(data_shape)
    /\ kpc' = "selected"
    /\ UNCHANGED <<kdata, data_shape, chart_config, gateVars, compilerVars, taskVars,
                   sharedVars>>

\* create_dashboard_spec: chart_config = build_chart_config(chart_type, data, data_shape)
BuildChartConfig ==
    /\ kpc = "selected"
    /\ chart_config' = build_chart_config(chart_type, kdata, data_shape)
    /\ kpc' = "built"
    /\ UNCHANGED <<kdata, data_shape, chart_type, gateVars, compilerVars, taskVars,
                   sharedVars>>

ChartNext == AnalyzeDataShape \/ SelectChartType \/ BuildChartConfig

SpecChart == ChartInit /\ [][ChartNext]_vars


(***************************************************************************)
(* SQLGenerator.execute_sql and execute_query_safe, one action per stretch *)
(* of code between two suspension points of the coroutine.                 *)
(***************************************************************************)
\* A key/value store with one entry set or removed.
StoreSet(store, key, value) ==
    [k \in DOMAIN store \cup {key} |-> IF k = key THEN value ELSE store[k]]
StoreDel(store, key) == [k \in DOMAIN store \ {key} |-> store[k]]

\* The class of the exception with which generate_sql or execute_sql ends a
\* call of this outcome: KeyError from plan["table"], ValueError for an
\* unsafe statement, TimeoutError, and whatever the driver or json raised.
ExceptionOf(outcome) ==
    CASE outcome = "plan_error" -> "KeyError"
      [] outcome = "unsafe" -> "ValueError"
      [] outcome = "timeout" -> "TimeoutError"
      [] outcome = "error" -> "Exception"
      [] OTHER -> "None"

\* generate_and_execute: except Exception as e: raise ValueError(...).
generate_and_execute_raises(exception) ==
    IF exception = "None" THEN "None" ELSE "ValueError"

\* analyze_query: the HTTP status of the response.
analyze_query_status(exception) ==
    IF exception = "None" THEN 200
    ELSE IF exception = "ValueError" THEN 400
    ELSE 500

\* What the caller of the task's entry point sees raised.
RaisedTo(p, outcome) ==
    IF rplan[p] = NoPlan THEN ExceptionOf(outcome)
    ELSE generate_and_execute_raises(ExceptionOf(outcome))

\* What the log keeps of a call of execute_sql or generate_and_execute that
\* has returned or raised.
CallRecord(p, outcome, result, wrote, eread) ==
    [input |-> input[p], final |-> final[p], outcome |-> outcome,
     result |-> result, wrote |-> wrote, executed |-> executed[p],
     timedOut |-> timedOut[p], startIdx |-> startIdx[p], epochRead |-> eread,
     epochEnd |-> EpochOf(CacheKey(input[p])),
     plan |-> rplan[p], attempts |-> attempts[p],
     raised |-> RaisedTo(p, outcome),
     status |-> analyze_query_status(RaisedTo(p, outcome))]

\* execute_sql returns or raises: the call is logged and the task is free again.
Return(p, outcome, result, wrote, eread) ==
    /\ calls' = Append(calls, CallRecord(p, outcome, result, wrote, eread))
    /\ pc' = [pc EXCEPT ![p] = "idle"]
    /\ input' = [input EXCEPT ![p] = <<>>]
    /\ final' = [final EXCEPT ![p] = <<>>]
    /\ verdict' = [verdict EXCEPT ![p] = NotCalled]
    /\ held' = [held EXCEPT ![p] = NoResult]
    /\ executed' = [executed EXCEPT ![p] = FALSE]
    /\ startIdx' = [startIdx EXCEPT ![p] = 0]
    /\ epochRead' = [epochRead EXCEPT ![p] = 0]
    /\ timedOut' = [timedOut EXCEPT ![p] = FALSE]
    /\ rplan' = [rplan EXCEPT ![p] = NoPlan]
    /\ attempts' = [attempts EXCEPT ![p] = 0]

InFlight == {p \in Tasks : pc[p] # "idle"}

\* A request task calls execute_sql(sql).
Start(p, sql) ==
    /\ pc[p] = "idle"
    /\ Len(calls) + Cardinality(InFlight) < MaxCalls
    /\ pc' = [pc EXCEPT ![p] = "get_cached"]
    /\ input' = [input EXCEPT ![p] = sql]
    /\ startIdx' = [startIdx EXCEPT ![p] = Len(calls)]
    /\ UNCHANGED <<final, verdict, held, executed, epochRead, conn, timedOut, rplan, attempts>>
    /\ UNCHANGED <<pureVars, sharedVars>>

\* A request task calls generate_and_execute(plan).
GenerateAndExecute(p, pl) ==
    /\ pc[p] = "idle"
    /\ Len(calls) + Cardinality(InFlight) < MaxCalls
    /\ pc' = [pc EXCEPT ![p] = "generate_sql"]
    /\ rplan' = [rplan EXCEPT ![p] = pl]
    /\ startIdx' = [startIdx EXCEPT ![p] = Len(calls)]
    /\ UNCHANGED <<input, final, verdict, held, executed, epochRead, conn, timedOut, attempts>>
    /\ UNCHANGED <<pureVars, sharedVars>>

\* generate_and_execute: sql = await self.generate_sql(plan); an exception is
\* wrapped and raised, otherwise execute_sql(sql) is entered.
Generate(p) ==
    /\ pc[p] = "generate_sql"
    /\ LET sql == generate_sql(rplan[p])
       IN IF sql.raised # "None"
          THEN Return(p, "plan_error", NoResult, FALSE, 0)
          ELSE /\ input' = [input EXCEPT ![p] = sql.sql]
               /\ pc' = [pc EXCEPT ![p] = "get_cached"]
               /\ UNCHANGED <<final, verdict, held, executed, startIdx, epochRead,
                              timedOut, rplan, attempts, calls>>
    /\ UNCHANGED <<conn, pureVars, cache, epoch, available, dbSent, hpc>>

\* get_cached answers. A hit is returned at once. On a miss execute_query_safe
\* runs up to its first suspension: the gate, then the limit normalisation.
GetCached(p) ==
    /\ pc[p] = "get_cached"
    /\ LET cache_key == CacheKey(input[p])
           cached_result == get_cached(cache_key)
           is_safe == validate_sql_safety(input[p])
       IN IF cached_result # NoResult
          THEN /\ Return(p, "hit", cached_result, FALSE, EpochOf(cache_key))
               /\ UNCHANGED conn
          ELSE IF ~is_safe.safe
          THEN /\ Return(p, "unsafe", NoResult, FALSE, EpochOf(cache_key))
               /\ UNCHANGED conn
          ELSE /\ verdict' = [verdict EXCEPT ![p] = is_safe]
               /\ final' = [final EXCEPT ![p] = inject_limit_clause(input[p], max_rows)]
               /\ epochRead' = [epochRead EXCEPT ![p] = EpochOf(cache_key)]
               /\ pc' = [pc EXCEPT ![p] = "acquire"]
               /\ UNCHANGED <<input, held, executed, startIdx, conn, timedOut, calls, rplan, attempts>>
    /\ UNCHANGED <<pureVars, cache, epoch, available, dbSent, hpc>>

\* async with get_db_connection(): the pool hands out a connection.
Acquire(p) ==
    /\ pc[p] = "acquire"
    /\ available > 0
    /\ available' = available - 1
    /\ conn' = [conn EXCEPT ![p] = TRUE]
    /\ pc' = [pc EXCEPT ![p] = "connected"]
    /\ UNCHANGED <<input, final, verdict, held, executed, startIdx, epochRead, timedOut, rplan, attempts>>
    /\ UNCHANGED <<pureVars, cache, epoch, dbSent, calls, hpc>>

\* engine.connect() raises (the database cannot be reached).
ConnectError(p) ==
    /\ pc[p] = "acquire"
    /\ Return(p, "error", NoResult, FALSE, epochRead[p])
    /\ UNCHANGED <<conn, pureVars, cache, epoch, available, dbSent, hpc>>

\* conn.execute(text(sql)): the statement goes to the database.
Send(p) ==
    /\ pc[p] = "connected"
    /\ dbSent' = dbSent \cup
           {[sql |-> final[p], path |-> "execute_query_safe", gate |-> verdict[p]]}
    /\ executed' = [executed EXCEPT ![p] = TRUE]
    /\ attempts' = [attempts EXCEPT ![p] = attempts[p] + 1]
    /\ pc' = [pc EXCEPT ![p] = "executing"]
    /\ UNCHANGED <<input, final, verdict, held, startIdx, epochRead, conn, timedOut, rplan>>
    /\ UNCHANGED <<pureVars, cache, epoch, available, calls, hpc>>

\* The statement completes: the rows are fetched and materialised, the
\* connection goes back to the pool, execute_query_safe returns the result.
Fetch(p, rs) ==
    /\ pc[p] = "executing"
    /\ held' = [held EXCEPT ![p] = Materialize(rs)]
    /\ conn' = [conn EXCEPT ![p] = FALSE]
    /\ available' = available + 1
    /\ pc' = [pc EXCEPT ![p] = "set_cached"]
    /\ UNCHANGED <<input, final, verdict, executed, startIdx, epochRead, timedOut, rplan, attempts>>
    /\ UNCHANGED <<pureVars, cache, epoch, dbSent, calls, hpc>>

\* A mutation of DriverError: the failure is remembered in the cache as an
\* empty result.
DriverErrorCached(p) ==
    /\ pc[p] = "executing"
    /\ conn' = [conn EXCEPT ![p] = FALSE]
    /\ available' = available + 1
    /\ cache' = StoreSet(cache, CacheKey(input[p]), JsonDumps(Materialize([keys |-> <<>>, rows |-> <<>>])))
    /\ Return(p, "error", NoResult, FALSE, epochRead[p])
    /\ UNCHANGED <<pureVars, epoch, dbSent, hpc>>

\* A mutation of DriverError: the failed statement is tried once more.
DriverErrorRetry(p) ==
    /\ pc[p] = "executing"
    /\ conn' = [conn EXCEPT ![p] = FALSE]
    /\ available' = available + 1
    /\ pc' = [pc EXCEPT ![p] = IF attempts[p] < 2 THEN "acquire" ELSE "idle"]
    /\ IF attempts[p] < 2
       THEN UNCHANGED <<input, final, verdict, held, executed, startIdx, epochRead,
                        timedOut, rplan, attempts, calls>>
       ELSE Return(p, "error", NoResult, FALSE, epochRead[p])
    /\ UNCHANGED <<pureVars, cache, epoch, dbSent, hpc>>

\* The driver raises: async with releases the connection, the exception is
\* logged and re-raised by execute_query_safe and by execute_sql.
DriverError(p) ==
    /\ pc[p] = "executing"
    /\ conn' = [conn EXCEPT ![p] = FALSE]
    /\ available' = available + 1
    /\ Return(p, "error", NoResult, FALSE, epochRead[p])
    /\ UNCHANGED <<pureVars, cache, epoch, dbSent, hpc>>

\* asyncio.wait_for: the deadline passes while _execute is suspended; the
\* task running _execute is cancelled.
Deadline(p) ==
    /\ pc[p] \in {"acquire", "connected", "executing"}
    /\ timedOut' = [timedOut EXCEPT ![p] = TRUE]
    /\ pc' = [pc EXCEPT ![p] = "cancelled"]
    /\ UNCHANGED <<input, final, verdict, held, executed, startIdx, epochRead, conn, rplan, attempts>>
    /\ UNCHANGED <<pureVars, sharedVars>>

\* A mutation of Unwind: the connection of a cancelled query is not given back.
UnwindLeak(p) ==
    /\ pc[p] = "cancelled"
    /\ conn' = [conn EXCEPT ![p] = FALSE]
    /\ Return(p, "timeout", NoResult, FALSE, epochRead[p])
    /\ UNCHANGED <<pureVars, cache, epoch, available, dbSent, hpc>>

\* A mutation of Unwind: the rows read so far are returned instead of raising.
UnwindPartial(p) ==
    /\ pc[p] = "cancelled"
    /\ conn' = [conn EXCEPT ![p] = FALSE]
    /\ available' = IF conn[p] THEN available + 1 ELSE available
    /\ held' = [held EXCEPT ![p] = Materialize([keys |-> <<"a">>, rows |-> <<>>])]
    /\ pc' = [pc EXCEPT ![p] = "set_cached"]
    /\ UNCHANGED <<input, final, verdict, executed, startIdx, epochRead, timedOut, rplan, attempts>>
    /\ UNCHANGED <<pureVars, cache, epoch, dbSent, calls, hpc>>

\* The cancelled _execute unwinds: async with releases the connection if one
\* is held, wait_for raises asyncio.TimeoutError, execute_query_safe raises
\* TimeoutError, execute_sql logs and re-raises.
Unwind(p) ==
    /\ pc[p] = "cancelled"
    /\ conn' = [conn EXCEPT ![p] = FALSE]
    /\ available' = IF conn[p] THEN available + 1 ELSE available
    /\ Return(p, "timeout", NoResult, FALSE, epochRead[p])
    /\ UNCHANGED <<pureVars, cache, epoch, dbSent, hpc>>

\* A mutation of SetCached: the key is only set if it is absent (SETNX), so
\* the first writer's value stays.
SetCachedIfAbsent(p) ==
    /\ pc[p] = "set_cached"
    /\ IF JsonSerializable(held[p])
       THEN /\ cache' = IF CacheKey(input[p]) \in DOMAIN cache THEN cache
                         ELSE StoreSet(cache, CacheKey(input[p]), JsonDumps(held[p]))
            /\ Return(p, "executed", held[p], TRUE, epochRead[p])
       ELSE /\ cache' = cache
            /\ Return(p, "error", NoResult, FALSE, epochRead[p])
    /\ UNCHANGED <<conn, pureVars, epoch, available, dbSent, hpc>>

\* set_cached(cache_key, result, ttl): json.dumps, then redis.setex; a value
\* json cannot encode raises TypeError, which execute_sql logs and re-raises.
SetCached(p) ==
    /\ pc[p] = "set_cached"
    /\ IF JsonSerializable(held[p])
       THEN /\ cache' = StoreSet(cache, CacheKey(input[p]), JsonDumps(held[p]))
            /\ Return(p, "executed", held[p], TRUE, epochRead[p])
       ELSE /\ cache' = cache
            /\ Return(p, "error", NoResult, FALSE, epochRead[p])
    /\ UNCHANGED <<conn, pureVars, epoch, available, dbSent, hpc>>

\* The TTL of an entry runs out: the store drops it.
Expire(key) ==
    /\ key \in DOMAIN cache
    /\ EpochOf(key) < MaxExpire
    /\ cache' = StoreDel(cache, key)
    /\ epoch' = StoreSet(epoch, key, EpochOf(key) + 1)
    /\ UNCHANGED <<pureVars, taskVars, available, dbSent, calls, hpc>>

(***************************************************************************)
(* The other code that sends SQL to a database.                            *)
(***************************************************************************)
\* database_health: async with get_db_connection() as conn.
HealthConnect ==
    /\ hpc = "idle"
    /\ available > 0
    /\ available' = available - 1
    /\ hpc' = "connected"
    /\ UNCHANGED <<pureVars, taskVars, cache, epoch, dbSent, calls>>

\* database_health: conn.execute("SELECT 1") reaches the database, or raises
\* (503); async with releases the connection either way.
HealthExecute ==
    /\ hpc = "connected"
    /\ \/ dbSent' = dbSent \cup
              {[sql |-> SelectOne, path |-> "database_health", gate |-> NotCalled]}
       \/ dbSent' = dbSent
    /\ available' = available + 1
    /\ hpc' = "idle"
    /\ UNCHANGED <<pureVars, taskVars, cache, epoch, calls>>

\* AnalyticsAgent.process_query: the SQL text the language model produced is
\* run as it is, by self.db.run and again by pd.read_sql, on the agent's own
\* engine.
ProcessQuery(sql_query) ==
    /\ dbSent' = dbSent \cup
           {[sql |-> sql_query, path |-> "process_query", gate |-> NotCalled]}
    /\ UNCHANGED <<pureVars, taskVars, cache, epoch, available, calls, hpc>>

\* The request tasks, the cache's TTL and the database.
Next ==
    \/ \E p \in Tasks, sql \in ExecInputs : Start(p, sql)
    \/ \E p \in Tasks : GetCached(p)
    \/ \E p \in Tasks : Acquire(p)
    \/ \E p \in Tasks : ConnectError(p)
    \/ \E p \in Tasks : Send(p)
    \/ \E p \in Tasks, rs \in ResultSets : Fetch(p, rs)
    \/ \E p \in Tasks : DriverError(p)
    \/ \E p \in Tasks : Deadline(p)
    \/ \E p \in Tasks : Unwind(p)
    \/ \E p \in Tasks : SetCached(p)
    \/ \E key \in DOMAIN cache : Expire(key)

Spec == Init /\ [][Next]_vars

\* SQL texts a language model may hand to AnalyticsAgent.
GeneratedSql == {SqlX, SqlDrop}

\* Every path of the program that sends SQL to a database: one request task
\* at a time, the health check and AnalyticsAgent.
PathsNext ==
    \/ \E sql \in ExecInputs : Start(1, sql)
    \/ GetCached(1)
    \/ Acquire(1)
    \/ ConnectError(1)
    \/ Send(1)
    \/ \E rs \in ResultSets : Fetch(1, rs)
    \/ DriverError(1)
    \/ Deadline(1)
    \/ Unwind(1)
    \/ SetCached(1)
    \/ \E key \in DOMAIN cache : Expire(key)
    \/ HealthConnect
    \/ HealthExecute
    \/ \E sql_query \in GeneratedSql : ProcessQuery(sql_query)

SpecPaths == Init /\ [][PathsNext]_vars

\* The request tasks entering through generate_and_execute.
RequestNext ==
    \/ \E p \in Tasks, pl \in RequestPlans : GenerateAndExecute(p, pl)
    \/ \E p \in Tasks : Generate(p)
    \/ \E p \in Tasks : GetCached(p)
    \/ \E p \in Tasks : Acquire(p)
    \/ \E p \in Tasks : ConnectError(p)
    \/ \E p \in Tasks : Send(p)
    \/ \E p \in Tasks, rs \in ResultSets : Fetch(p, rs)
    \/ \E p \in Tasks : DriverError(p)
    \/ \E p \in Tasks : Deadline(p)
    \/ \E p \in Tasks : Unwind(p)
    \/ \E p \in Tasks : SetCached(p)
    \/ \E key \in DOMAIN cache : Expire(key)

SpecRequest == Init /\ [][RequestNext]_vars


(***************************************************************************)
(* Vocabulary of the properties, stated on the characters of the text      *)
(* without the gate's own helpers.                                         *)
(***************************************************************************)
\* A letter, a digit or the underscore.
IdentChars == Letters \cup Digits \cup {"_"}
IdentChar(c) == c \in IdentChars

\* word occurs in s, in any letter case, as a token of its own: the characters
\* next to the occurrence, if any, are no letter, digit or underscore.
OccursStandalone(word, s) ==
    \E i \in 1..(Len(s) - Len(word) + 1) :
        /\ \A k \in 1..Len(word) : LowerChar(s[i + k - 1]) = LowerChar(word[k])
        /\ i = 1 \/ ~IdentChar(s[i - 1])
        /\ i + Len(word) > Len(s) \/ ~IdentChar(s[i + Len(word)])

\* word occurs in s, in any letter case, at any place.
OccursAnywhere(word, s) ==
    \E i \in 1..(Len(s) - Len(word) + 1) :
        \A k \in 1..Len(word) : LowerChar(s[i + k - 1]) = LowerChar(word[k])

SomeKeywordToken(s) == \E K \in ForbiddenKeywords : OccursStandalone(K, s)

\* "--" or "/*" somewhere in s.
CommentMarker(s) ==
    \E i \in 1..(Len(s) - 1) :
        \/ s[i] = "-" /\ s[i + 1] = "-"
        \/ s[i] = "/" /\ s[i + 1] = "*"

SemicolonCount(s) == Cardinality({i \in 1..Len(s) : s[i] = ";"})

\* s has exactly one ';' and it is the last character that is not whitespace.
SingleTrailingSemicolon(s) ==
    /\ SemicolonCount(s) = 1
    /\ \E i \in 1..Len(s) : s[i] = ";" /\ \A j \in (i + 1)..Len(s) : s[j] \in Whitespace

\* Some ';' of s is followed by a character other than ';' before the
\* trailing whitespace: it lies outside the run of ';' that ends the text.
SemicolonBeforeEnd(s) ==
    \E i \in 1..Len(s) :
        /\ s[i] = ";"
        /\ \E j \in (i + 1)..Len(s) :
              /\ s[j] # ";"
              /\ \E k \in j..Len(s) : s[k] \notin Whitespace

Validated == gpc \in {"validated", "injected"}

KeywordReason == "Forbidden SQL keyword detected"

EndsWith(s, suffix) ==
    Len(s) >= Len(suffix) /\ SubSeq(s, Len(s) - Len(suffix) + 1, Len(s)) = suffix

(***************************************************************************)
(* The gate's properties (checked under SpecGate).                         *)
(***************************************************************************)
\* C2: for every denylisted keyword K, a text in which K occurs as a token of
\* its own, in any letter case, is rejected; and the gate names K as the
\* reason only for a text in which K occurs as a token of its own, never for
\* one in which K is only part of a longer identifier.
C2_KeywordTokens ==
    Validated =>
        \A K \in ForbiddenKeywords :
            /\ OccursStandalone(K, gsql) => ~gverdict.safe
            /\ (gverdict.reason = KeywordReason /\ gverdict.keyword = K)
                   => OccursStandalone(K, gsql)

\* "execute": EXEC is only part of the longer word, EXECUTE is the token named.
C2_Witness ==
    /\ gpc = "validated"
    /\ gsql = <<"e", "x", "e", "c", "u", "t", "e">>
    /\ gverdict.reason = KeywordReason
    /\ gverdict.keyword = <<"E", "X", "E", "C", "U", "T", "E">>
    /\ OccursAnywhere(<<"E", "X", "E", "C">>, gsql)
    /\ ~OccursStandalone(<<"E", "X", "E", "C">>, gsql)

\* C3 as stated: without keyword and comment marker, a text is accepted
\* exactly if it has no ';' or a single ';' as its last non-blank character.
C3_SingleTrailingOnly ==
    (Validated /\ ~SomeKeywordToken(gsql) /\ ~CommentMarker(gsql)) =>
        (gverdict.safe <=> (SemicolonCount(gsql) = 0 \/ SingleTrailingSemicolon(gsql)))

\* C3 as amended: without keyword and comment marker, a text is accepted
\* exactly if every ';' of it belongs to the run of one or more ';' that ends
\* the text (trailing whitespace aside); otherwise it is rejected as multiple
\* statements.
C3_TrailingRunOnly ==
    (Validated /\ ~SomeKeywordToken(gsql) /\ ~CommentMarker(gsql)) =>
        /\ gverdict.safe <=> ~SemicolonBeforeEnd(gsql)
        /\ ~gverdict.safe => gverdict = MultiStatementViolation

\* A text with two trailing ';' followed by a blank is accepted.
C3_Witness ==
    /\ gpc = "validated"
    /\ gsql = <<"x", ";", ";">>
    /\ gverdict.safe

\* C4: the rules are decided in the order keyword, comment marker, semicolon
\* placement, and the reason returned is that of the first rule violated;
\* (safe, no reason) is returned exactly when no rule is violated.
C4_RuleOrder ==
    Validated =>
        LET r1 == SomeKeywordToken(gsql)
            r2 == CommentMarker(gsql)
            r3 == SemicolonBeforeEnd(gsql)
        IN /\ r1 => (~gverdict.safe /\ gverdict.reason = KeywordReason)
           /\ (~r1 /\ r2) => gverdict = CommentViolation
           /\ (~r1 /\ ~r2 /\ r3) => gverdict = MultiStatementViolation
           /\ (~r1 /\ ~r2 /\ ~r3) <=> gverdict = Safe

\* A text that breaks the keyword rule and the comment rule is reported for
\* its keyword.
C4_Witness ==
    /\ gpc = "validated"
    /\ SomeKeywordToken(gsql)
    /\ CommentMarker(gsql)
    /\ gverdict.reason = KeywordReason

\* C5: a validated text without a LIMIT clause ends, after
\* inject_limit_clause, with "LIMIT <max_rows>" -- also when the letters
\* "limit" occur inside an identifier.
C5_LimitAppended ==
    (gpc = "injected" /\ ~OccursStandalone(LimitWord, gsql)) =>
        EndsWith(gout, LimitWord \o <<" ">> \o DecStr(max_rows))

CallIds == 1..Len(calls)

\* Call j started after call i had completed (the log is in completion order).
After(i, j) == i < j /\ calls[j].startIdx >= i

\* C1: every statement that reaches a database was passed by
\* validate_sql_safety on the path that sent it (checked under SpecPaths).
C1_AllGated == \A e \in dbSent : e.gate.safe

\* C7: of two calls of execute_sql in sequence with the same SQL text, the
\* first succeeding and the entry not expiring in between, the second is
\* answered from the cache with the result stored last and sends nothing to
\* the database; if the first executed the query, that is the one execution.
C7_SecondCallCached ==
    \A i, j \in CallIds :
        ( /\ After(i, j)
          /\ calls[j].input = calls[i].input
          /\ calls[i].outcome \in {"executed", "hit"}
          /\ calls[j].epochRead = calls[i].epochEnd )
        => /\ calls[j].outcome = "hit"
           /\ ~calls[j].executed
           /\ calls[i].outcome = "executed" => calls[i].executed
           /\ \E k \in 1..(j - 1) :
                 /\ calls[k].input = calls[j].input
                 /\ calls[k].wrote
                 /\ calls[k].result = calls[j].result
                 /\ \A m \in (k + 1)..(j - 1) :
                       ~(calls[m].input = calls[j].input /\ calls[m].wrote)

\* Two calls in sequence with the same text: the first executed, the second hit.
C7_Witness ==
    \E i, j \in CallIds :
        /\ After(i, j)
        /\ calls[j].input = calls[i].input
        /\ calls[i].outcome = "executed"
        /\ calls[i].result.row_count = 1
        /\ calls[j].epochRead = calls[i].epochEnd
        /\ calls[j].outcome = "hit"

\* C8 as stated: of two calls in sequence within one TTL window whose final
\* validated SQL text is the same, at most one executes on the database, also
\* when the texts passed in differ.
C8_KeyOfFinalText ==
    \A i, j \in CallIds :
        ( /\ After(i, j)
          /\ DOMAIN epoch = {}
          /\ calls[i].outcome = "executed"
          /\ calls[j].input = calls[i].input \/ calls[j].final = calls[i].final )
        => ~calls[j].executed

\* C8 as amended: the cache key is a function of the SQL text as passed to
\* execute_sql, before the gate and the limit normalisation: a call is
\* answered from the cache only if an earlier call with the same text,
\* character for character, executed and stored the result it returns, and
\* that entry has not expired since.
C8_KeyOfInputText ==
    \A j \in CallIds :
        calls[j].outcome = "hit" =>
            \E i \in 1..(j - 1) :
                /\ calls[i].input = calls[j].input
                /\ calls[i].wrote
                /\ calls[i].epochEnd = calls[j].epochRead
                /\ calls[i].result = calls[j].result

\* "x" is executed and cached; then "x;", whose final text is the same, is
\* executed again.
C8_Witness ==
    \E i, j \in CallIds :
        /\ After(i, j)
        /\ DOMAIN epoch = {}
        /\ calls[i].wrote
        /\ calls[j].input # calls[i].input
        /\ calls[j].final = calls[i].final
        /\ calls[j].outcome = "executed"

\* C9: a call whose deadline fired is cancelled and stays so until it raises
\* the timeout error: it holds no result, returns none, and writes nothing to
\* the cache.
C9_TimeoutReturnsNothing ==
    /\ \A p \in Tasks :
          timedOut[p] => (pc[p] = "cancelled" /\ held[p] = NoResult)
    /\ \A i \in CallIds :
          calls[i].timedOut =>
              /\ calls[i].outcome = "timeout"
              /\ calls[i].result = NoResult
              /\ ~calls[i].wrote

\* A statement was in flight when the deadline fired; its text has no entry.
C9_Witness ==
    \E i \in CallIds :
        /\ calls[i].timedOut
        /\ calls[i].executed
        /\ calls[i].outcome = "timeout"
        /\ CacheKey(calls[i].input) \notin DOMAIN cache

\* C10: a connection is out of the pool only while a query holds it; when no
\* query is in flight the pool has all its connections again.
C10_NoLeak ==
    /\ available + Cardinality({p \in Tasks : conn[p]})
           + (IF hpc = "connected" THEN 1 ELSE 0) = PoolCapacity
    /\ \A p \in Tasks : conn[p] => pc[p] \in {"connected", "executing", "cancelled"}
    /\ (InFlight = {} /\ hpc = "idle") => available = PoolCapacity

\* After a query that was cancelled while its statement ran and one that
\* failed in the driver, the two overlapping, the pool is full.
C10_Witness ==
    /\ InFlight = {}
    /\ available = PoolCapacity
    /\ \E i \in CallIds : calls[i].outcome = "error" /\ calls[i].executed
    /\ \E i \in CallIds : calls[i].outcome = "timeout" /\ calls[i].executed
    /\ \E j \in CallIds : calls[j].startIdx < j - 1

(***************************************************************************)
(* The requests entering through generate_and_execute (checked under       *)
(* SpecRequest).                                                           *)
(***************************************************************************)
\* The outcomes with which a request fails.
FailureOutcomes == {"plan_error", "unsafe", "timeout", "error"}

\* The completed calls that entered through generate_and_execute.
RequestIds == {i \in CallIds : calls[i].plan # NoPlan}

\* C11: the four failure kinds (plan error, safety violation, execution
\* timeout, execution error) reach the caller of generate_and_execute as
\* four distinguishable outcomes: two requests that failed in different ways
\* raise exceptions of different classes, a timeout is not raised as the
\* ValueError of a validation or safety error, and a driver failure is
\* answered as a server-side failure (500), not as a client validation
\* failure (400).
C11_FailureKindsDistinct ==
    /\ \A i, j \in RequestIds :
           (/\ calls[i].outcome \in FailureOutcomes
            /\ calls[j].outcome \in FailureOutcomes
            /\ calls[i].outcome # calls[j].outcome) => calls[i].raised # calls[j].raised
    /\ \A i \in RequestIds :
           /\ calls[i].outcome = "timeout" => calls[i].raised # "ValueError"
           /\ calls[i].outcome = "error" => calls[i].status = 500

\* C12: within one request the statement is sent to the database at most
\* once; a request that ended in a timeout, a driver error, a safety
\* rejection or a plan error returned no result and stored none, and one
\* rejected before execution sent nothing.
C12_AtMostOneExecution ==
    /\ \A p \in Tasks : attempts[p] <= 1
    /\ \A i \in RequestIds :
           /\ calls[i].attempts <= 1
           /\ calls[i].outcome \in FailureOutcomes =>
                  calls[i].result = NoResult /\ ~calls[i].wrote
           /\ calls[i].outcome \in {"plan_error", "unsafe"} => calls[i].attempts = 0

\* One request timed out after its statement was sent and another failed in
\* the driver: each sent its statement once.
C12_Witness ==
    /\ \E i \in RequestIds :
           calls[i].outcome = "timeout" /\ calls[i].attempts = 1
    /\ \E j \in RequestIds :
           calls[j].outcome = "error" /\ calls[j].executed /\ calls[j].attempts = 1

(***************************************************************************)
(* The compiler's properties (checked under SpecCompiler).                 *)
(***************************************************************************)
\* The five aggregations and the six operators of the plan model.
Aggregations == {<<"S", "U", "M">>, <<"A", "V", "G">>, <<"C", "O", "U", "N", "T">>, <<"M", "I", "N">>, <<"M", "A", "X">>}
Operators == {<<"=">>, <<">">>, <<"<">>, <<">", "=">>, <<"<", "=">>, <<"!", "=">>}

PlanMetrics == Get(cplan, "metrics", <<>>)
PlanFilters == Get(cplan, "filters", <<>>)
PlanJoins == Get(cplan, "joins", <<>>)

\* generate_sql has returned or raised.
CompileDone == cpc \in {"compiled", "executed"}

\* The plan names a table.
HasTable == "table" \in DOMAIN cplan /\ cplan["table"] # <<>>

\* The compilation failed: an exception, and no SQL text.
CompileFailed == cout.raised # "None" /\ cout.sql = <<>>

\* The metrics that carry an aggregation outside the enum, and those that
\* carry none.
UnknownAggregation(metric) ==
    "aggregation" \in DOMAIN metric /\ metric["aggregation"] \notin Aggregations
NoAggregation(metric) == "aggregation" \notin DOMAIN metric

\* C14: a plan with a metric whose aggregation is outside {SUM, AVG, COUNT,
\* MIN, MAX} fails to compile and yields no SQL; the unknown value is never
\* copied into the SQL text as a function call; and a metric without an
\* aggregation never appears in the SQL text under the alias of a defaulted
\* aggregation (stated for the plans that name a table).
C14_AggregationEnum ==
    (CompileDone /\ HasTable) =>
        \A i \in 1..Len(PlanMetrics) :
            LET metric == PlanMetrics[i]
            IN /\ UnknownAggregation(metric) => CompileFailed
               /\ UnknownAggregation(metric) =>
                      ~Contains(cout.sql, metric["aggregation"] \o <<"(">>)
               /\ NoAggregation(metric) =>
                      ~Contains(cout.sql, <<" ">> \o LastSegment(metric["column"])
                                              \o <<"_">> \o Lower(AggSum))

\* C15: a plan with a filter whose operator is outside {=, >, <, >=, <=, !=}
\* is rejected before SQL is produced: whenever SQL was produced, every
\* filter of the plan, and so every WHERE term, has one of the six operators
\* (stated for the plans that name a table).
C15_OperatorSet ==
    (CompileDone /\ HasTable) =>
        /\ (\E i \in 1..Len(PlanFilters) : PlanFilters[i]["operator"] \notin Operators)
               => CompileFailed
        /\ cout.sql # <<>> =>
               \A i \in 1..Len(PlanFilters) : PlanFilters[i]["operator"] \in Operators

\* A plan with a non-empty table, aggregations of the enum where present and
\* operators of the set.
StructurallyValid ==
    /\ HasTable
    /\ \A i \in 1..Len(PlanMetrics) : ~UnknownAggregation(PlanMetrics[i])
    /\ \A i \in 1..Len(PlanFilters) : PlanFilters[i]["operator"] \in Operators

\* C16: a plan whose table is missing or is the empty string fails to compile
\* and nothing is produced or executed; a structurally valid plan compiles
\* without raising.
C16_TableRequired ==
    CompileDone =>
        /\ ("table" \notin DOMAIN cplan \/ cplan["table"] = <<>>) =>
               CompileFailed /\ cpc # "executed"
        /\ StructurallyValid => cout.raised = "None" /\ cout.sql # <<>>

\* Join i of the plan starts from a table that is neither the root table nor
\* the table of an earlier join.
ForwardReference(i) ==
    LET join_from == Get(PlanJoins[i], "join_from", cplan["table"])
    IN /\ join_from # cplan["table"]
       /\ \A j \in 1..(i - 1) : PlanJoins[j]["table"] # join_from

\* C17: a plan that violates the join-tree invariant fails to compile, so
\* that no SQL is emitted whose JOIN ... ON names a table not yet introduced:
\* the SQL text holds no JOIN clause of a join that starts from a table that
\* is neither the root nor an earlier join's (stated for the plans that name
\* a table).
C17_JoinTree ==
    (CompileDone /\ HasTable) =>
        \A i \in 1..Len(PlanJoins) :
            ForwardReference(i) =>
                ~Contains(cout.sql,
                          JoinSp \o PlanJoins[i]["table"] \o OnSp
                              \o PlanJoins[i]["join_from"] \o <<".">>)

\* C20: every QueryResult has row_count equal to the number of its rows,
\* pairwise distinct column names, and rows that map exactly the names in
\* columns, for every statement the compiler emits (stated for the plans that
\* name a table).
C20_QueryResultShape ==
    (cpc = "executed" /\ HasTable) =>
        /\ cresult.row_count = Len(cresult.rows)
        /\ \A i, j \in 1..Len(cresult.columns) :
               cresult.columns[i] = cresult.columns[j] => i = j
        /\ \A r \in 1..Len(cresult.rows) :
               DOMAIN cresult.rows[r] = {cresult.columns[i] : i \in 1..Len(cresult.columns)}

(***************************************************************************)
(* The chart shape engine's properties (checked under SpecChart).          *)
(***************************************************************************)
\* The rules of the cascade, by number, on a data shape.
RuleHolds(k, shape) ==
    LET numeric == Len(shape.numeric_columns)
        text == Len(shape.text_columns)
    IN CASE k = 1 -> shape.num_columns = 1 /\ shape.num_rows = 1
         [] k = 2 -> shape.has_time_series /\ numeric >= 1
         [] k = 3 -> text >= 1 /\ numeric >= 1
         [] k = 4 -> numeric >= 2 /\ text = 0
         [] k = 5 -> shape.num_rows <= 10 /\ text = 1 /\ numeric = 1
         [] OTHER -> TRUE

RuleType == <<"kpi", "line", "bar", "scatter", "pie", "table">>

\* C18: the chart type is the type of the lowest-numbered rule of the
\* cascade kpi, line, bar, scatter, pie, table that the shape satisfies.
C18_FirstMatch ==
    kpc = "selected" =>
        \E k \in 1..Len(RuleType) :
            /\ RuleHolds(k, data_shape)
            /\ \A j \in 1..(k - 1) : ~RuleHolds(j, data_shape)
            /\ chart_type = RuleType[k]

\* A shape with a date, a text and a numeric column satisfies the line rule
\* and the bar rule, and is a line chart.
C18_Witness ==
    /\ kpc = "selected"
    /\ RuleHolds(2, data_shape)
    /\ RuleHolds(3, data_shape)
    /\ chart_type = "line"

\* The columns of the result whose value in the first row is a str and whose
\* name has no date word, and those whose value is a number.
DateWords == {<<"d", "a", "t", "e">>, <<"t", "i", "m", "e">>, <<"y", "e", "a", "r">>, <<"m", "o", "n", "t", "h">>, <<"d", "a", "y">>}
StrColumns(d) ==
    {i \in 1..Len(d.columns) :
        /\ d.rows[1][d.columns[i]].t = "str"
        /\ \A w \in DateWords : ~OccursAnywhere(w, d.columns[i])}
NumberColumns(d) ==
    {i \in 1..Len(d.columns) : d.rows[1][d.columns[i]].t \in {"int", "float"}}

\* C19: a query result with at most 10 rows, exactly one text column and
\* exactly one numeric column is classified as pie.
C19_SmallBreakdownIsPie ==
    (/\ kpc = "selected"
     /\ Len(kdata.rows) \in 1..10
     /\ Cardinality(StrColumns(kdata)) = 1
     /\ Cardinality(NumberColumns(kdata)) = 1) => chart_type = "pie"

(***************************************************************************)
(* Concurrent calls of execute_sql and what the cache keeps.               *)
(***************************************************************************)
\* The calls that wrote the entry of key, as positions in the log; SetCached
\* writes and returns in one step, so the log has them in the order written.
Writers(key) == {i \in CallIds : calls[i].wrote /\ CacheKey(calls[i].input) = key}

LastWriter(key) == CHOOSE i \in Writers(key) : \A j \in Writers(key) : j <= i

\* Call j ran while call i ran: it had started before i returned, and it
\* read the cache before i wrote it (it missed with no expiry in between).
Overlapping(i, j) ==
    /\ i < j
    /\ calls[j].startIdx < i
    /\ calls[j].input = calls[i].input
    /\ calls[i].wrote
    /\ calls[j].outcome \notin {"hit", "unsafe"}
    /\ calls[j].epochRead <= calls[i].epochEnd

\* C21: there is no single-flight. Of two overlapping calls of execute_sql
\* with the same SQL text that both missed the cache and both completed, each
\* executed the statement itself and each wrote its own result under the one
\* key of that text; the cache holds, until the TTL runs out, one entry for
\* the text, and its value is the result written last.
C21_LastWriteWins ==
    /\ \A i, j \in CallIds :
          (Overlapping(i, j) /\ calls[j].outcome = "executed")
          => /\ calls[i].executed /\ calls[i].attempts = 1
             /\ calls[j].executed /\ calls[j].attempts = 1
             /\ calls[j].wrote
    /\ \A sql \in ExecInputs :
          LET key == CacheKey(sql)
          IN Writers(key) # {} =>
                LET last == LastWriter(key)
                IN /\ key \in DOMAIN cache => cache[key] = JsonDumps(calls[last].result)
                   /\ EpochOf(key) = calls[last].epochEnd =>
                         /\ key \in DOMAIN cache
                         /\ get_cached(key) = calls[last].result
    /\ \A key \in DOMAIN cache : Writers(key) # {}

\* Two overlapping calls with the same text both executed, with different
\* results, and the cache holds the second one's.
C21_Witness ==
    \E i, j \in CallIds :
        /\ Overlapping(i, j)
        /\ calls[i].outcome = "executed"
        /\ calls[j].outcome = "executed"
        /\ calls[i].result # calls[j].result
        /\ CacheKey(calls[j].input) \in DOMAIN cache
        /\ get_cached(CacheKey(calls[j].input)) = calls[j].result

(***************************************************************************)
(* The clauses of the compiled SQL, read back from its text.               *)
(***************************************************************************)
\* text.split(c) for a one-character separator.
RECURSIVE SplitOn(_, _)
SplitOn(s, c) ==
    LET at == {i \in 1..Len(s) : s[i] = c}
    IN IF at = {} THEN <<s>>
       ELSE LET i == CHOOSE k \in at : \A j \in at : k <= j
            IN <<SubSeq(s, 1, i - 1)>> \o SplitOn(SubSeq(s, i + 1, Len(s)), c)

StartsWith(s, prefix) ==
    Len(s) >= Len(prefix) /\ SubSeq(s, 1, Len(prefix)) = prefix

\* The clause keywords in the order the grammar of a SELECT statement fixes.
ClauseKeywords == <<<<"S", "E", "L", "E", "C", "T">>, <<"F", "R", "O", "M">>, <<"J", "O", "I", "N">>, <<"W", "H", "E", "R", "E">>, <<"G", "R", "O", "U", "P", " ", "B", "Y">>, <<"O", "R", "D", "E", "R", " ", "B", "Y">>, <<"L", "I", "M", "I", "T">>>>

\* The lines of the compiled SQL, the clause each one opens (0: none), and
\* what follows its keyword.
SqlLines == SplitOn(cout.sql, "\n")
ClauseRank(line) ==
    LET ks == {k \in 1..Len(ClauseKeywords) : StartsWith(line, ClauseKeywords[k] \o <<" ">>)}
    IN IF ks = {} THEN 0 ELSE CHOOSE k \in ks : TRUE
ClauseContent(line) == SubSeq(line, Len(ClauseKeywords[ClauseRank(line)]) + 2, Len(line))
SqlRanks == LET lines == SqlLines IN <<>> \o [i \in 1..Len(lines) |-> ClauseRank(lines[i])]
LinesOfRank(k) == LET ranks == SqlRanks IN {i \in 1..Len(ranks) : ranks[i] = k}

\* generate_sql returned SQL text.
CompiledOk == CompileDone /\ cout.raised = "None"

PlanDimensions == Get(cplan, "dimensions", <<>>)

\* Some metric of the plan carries an aggregation: the plan compiles to an
\* aggregate query, otherwise to a simple select.
AggregateQuery ==
    \E i \in 1..Len(PlanMetrics) : Truthy(Get(PlanMetrics[i], "aggregation", None))

\* C22: the compiled SQL is a sequence of clauses in the order SELECT, FROM,
\* JOIN (any number), WHERE, GROUP BY, ORDER BY, LIMIT, one clause per line;
\* no clause keyword stands without content, WHERE is there exactly when the
\* plan has filters, and the last clause is LIMIT max_rows.
C22_ClauseOrder ==
    CompiledOk =>
        LET lines == SqlLines
            ranks == SqlRanks
            rank(i) == ranks[i]
        IN /\ Len(lines) >= 3
           /\ \A i \in 1..Len(lines) : rank(i) # 0
           /\ rank(1) = 1
           /\ rank(2) = 2
           /\ \A i, j \in 1..Len(lines) :
                 i < j => /\ rank(i) <= rank(j)
                          /\ rank(i) = rank(j) => rank(i) = 3
           /\ \A i \in 1..Len(lines) :
                 (rank(i) # 2 \/ HasTable) => ClauseContent(lines[i]) # <<>>
           /\ LinesOfRank(4) # {} <=> PlanFilters # <<>>
           /\ lines[Len(lines)] = ClauseKeywords[7] \o <<" ">> \o DecStr(max_rows)

\* A compiled statement with every clause: a join, a filter, a dimension and
\* an aggregated metric.
C22_Witness ==
    /\ CompiledOk
    /\ HasTable
    /\ SqlRanks = <<1, 2, 3, 4, 5, 6, 7>>

\* The JOIN clause the i-th join of the plan stands for.
JoinClauseOf(i) ==
    LET join == PlanJoins[i]
    IN ClauseKeywords[3] \o <<" ">> \o join["table"] \o <<" ", "O", "N", " ">>
           \o Get(join, "join_from", cplan["table"]) \o <<".">> \o join["from_column"]
           \o <<" ", "=", " ">> \o join["table"] \o <<".">> \o join["on_column"]

\* C23: for a plan with n joins the compiled SQL holds, directly after
\* FROM <table>, exactly n JOIN clauses in plan order, the i-th being
\* JOIN <table_i> ON <join_from_i>.<from_column_i> = <table_i>.<on_column_i>,
\* for an aggregate query and for a simple select alike.
C23_JoinsEmitted ==
    (CompiledOk /\ HasTable) =>
        LET lines == SqlLines
        IN /\ Len(lines) >= 2 + Len(PlanJoins)
           /\ lines[2] = ClauseKeywords[2] \o <<" ">> \o cplan["table"]
           /\ \A i \in 1..Len(PlanJoins) : lines[2 + i] = JoinClauseOf(i)
           /\ Cardinality(LinesOfRank(3)) = Len(PlanJoins)

\* The GROUP BY clause, when there is one, lists the dimensions verbatim in
\* plan order.
GroupByVerbatim ==
    \A i \in LinesOfRank(5) :
        SqlLines[i] = ClauseKeywords[5] \o <<" ">> \o Join(<<",", " ">>, PlanDimensions)

\* C24 as stated: the compiled SQL has a GROUP BY clause exactly when the
\* plan's dimensions and metrics are both non-empty, and the clause lists the
\* dimensions verbatim in plan order.
C24_GroupByIffBoth ==
    (CompiledOk /\ HasTable) =>
        /\ LinesOfRank(5) # {} <=> (PlanDimensions # <<>> /\ PlanMetrics # <<>>)
        /\ GroupByVerbatim

\* C24 amended: the compiled SQL has a GROUP BY clause exactly when the plan's
\* dimensions are non-empty and some metric carries an aggregation (the plan
\* compiles to an aggregate query), and the clause lists the dimensions
\* verbatim in plan order.
C24_GroupByIffAggregate ==
    CompiledOk =>
        /\ LinesOfRank(5) # {} <=> (PlanDimensions # <<>> /\ AggregateQuery)
        /\ GroupByVerbatim

\* An aggregate query over two different dimensions, grouped by both.
C24_Witness ==
    /\ CompiledOk
    /\ AggregateQuery
    /\ Len(PlanDimensions) = 2
    /\ PlanDimensions[1] # PlanDimensions[2]
    /\ LinesOfRank(5) # {}

\* The alias the SELECT list gives the first metric: what follows " AS " in
\* the item after the dimensions.
FirstMetricAlias ==
    LET items == SplitOn(ClauseContent(SqlLines[1]), ",")
        item == items[Len(PlanDimensions) + 1]
        as == CHOOSE i \in 1..Len(item) :
                  i + 3 <= Len(item) /\ SubSeq(item, i, i + 3) = <<" ", "A", "S", " ">>
    IN SubSeq(item, as + 4, Len(item))

\* The ORDER BY clause, when there is one, is the only one and reads
\* ORDER BY <alias> DESC with the first metric's alias of the SELECT list,
\* which is <last segment of column>_<aggregation lower-cased>.
OrderByFirstAlias ==
    /\ Cardinality(LinesOfRank(6)) <= 1
    /\ \A i \in LinesOfRank(6) :
          /\ SqlLines[i] = ClauseKeywords[6] \o <<" ">> \o FirstMetricAlias
                               \o <<" ", "D", "E", "S", "C">>
          /\ "aggregation" \in DOMAIN PlanMetrics[1] =>
                FirstMetricAlias = LastSegment(PlanMetrics[1]["column"]) \o <<"_">>
                                       \o Lower(PlanMetrics[1]["aggregation"])

\* C25 as stated: the compiled SQL has an ORDER BY clause exactly when the
\* plan's metrics are non-empty; it is ORDER BY <alias> DESC for the first
\* metric's alias of the SELECT list and has no other ordering key.
C25_OrderByIffMetrics ==
    (CompiledOk /\ HasTable) =>
        /\ LinesOfRank(6) # {} <=> PlanMetrics # <<>>
        /\ OrderByFirstAlias

\* C25 amended: the compiled SQL has an ORDER BY clause exactly when some
\* metric of the plan carries an aggregation (the plan compiles to an
\* aggregate query); it is ORDER BY <alias> DESC for the first metric's alias
\* of the SELECT list and has no other ordering key.
C25_OrderByIffAggregate ==
    CompiledOk =>
        /\ LinesOfRank(6) # {} <=> AggregateQuery
        /\ OrderByFirstAlias

\* An aggregate query with two metrics of different aliases, the first on a
\* column with a table prefix, ordered by the first one's alias.
C25_Witness ==
    /\ CompiledOk
    /\ Len(PlanMetrics) = 2
    /\ \A i \in 1..2 : "aggregation" \in DOMAIN PlanMetrics[i]
    /\ MetricAlias(PlanMetrics[1]) # MetricAlias(PlanMetrics[2])
    /\ PlanMetrics[1]["column"] # LastSegment(PlanMetrics[1]["column"])
    /\ LinesOfRank(6) # {}

(***************************************************************************)
(* The data shape and the chart configuration.                             *)
(***************************************************************************)
\* analyze_data_shape has returned.
Profiled == kpc \in {"profiled", "selected", "built"}

\* The first row's value of a column of the result.
FirstValue(col) == kdata.rows[1][col]

\* The classes of the claim: a number (Python counts a bool as one), a str
\* under a name with a date word in any letter case, a str under another name.
NumberColumn(col) == FirstValue(col).t \in {"int", "float", "bool"}
HasDateWord(col) == \E w \in DateWords : OccursAnywhere(w, col)
DateColumn(col) == FirstValue(col).t = "str" /\ HasDateWord(col)
TextColumn(col) == FirstValue(col).t = "str" /\ ~HasDateWord(col)

NamesOf(seq) == {seq[i] : i \in 1..Len(seq)}

\* C26: each column is classified from the first row's value only: a number
\* makes it numeric, a str makes it a date column if its name holds date,
\* time, year, month or day in any letter case and a text column otherwise,
\* NULL leaves it in no list; so the three lists are the columns of their
\* class in column order, no name is in two of them, and has_time_series
\* holds exactly when there is a date column and a numeric column.
C26_Classification ==
    /\ (Profiled /\ kdata.rows = <<>>) =>
          /\ data_shape.numeric_columns = <<>>
          /\ data_shape.text_columns = <<>>
          /\ ~data_shape.has_time_series
    /\ (Profiled /\ kdata.rows # <<>>) =>
        /\ data_shape.numeric_columns = SelectSeq(kdata.columns, NumberColumn)
        /\ data_shape.date_columns = SelectSeq(kdata.columns, DateColumn)
        /\ data_shape.text_columns = SelectSeq(kdata.columns, TextColumn)
        /\ \A col \in NamesOf(kdata.columns) :
              /\ FirstValue(col).t \in {"int", "float"} =>
                    col \in NamesOf(data_shape.numeric_columns)
              /\ FirstValue(col).t = "None" =>
                    col \notin NamesOf(data_shape.numeric_columns)
                                \cup NamesOf(data_shape.text_columns)
                                \cup NamesOf(data_shape.date_columns)
        /\ NamesOf(data_shape.numeric_columns) \cap NamesOf(data_shape.text_columns) = {}
        /\ NamesOf(data_shape.numeric_columns) \cap NamesOf(data_shape.date_columns) = {}
        /\ NamesOf(data_shape.text_columns) \cap NamesOf(data_shape.date_columns) = {}
        /\ data_shape.has_time_series <=>
              (data_shape.date_columns # <<>> /\ data_shape.numeric_columns # <<>>)

\* A result with a number, a str under a capitalised date name and a NULL:
\* one numeric column, one date column, a time series.
C26_Witness ==
    /\ Profiled
    /\ kdata.rows # <<>>
    /\ \E col \in NamesOf(kdata.columns) : FirstValue(col).t = "None"
    /\ \E col \in NamesOf(data_shape.date_columns) : \A w \in DateWords : ~Contains(col, w)
    /\ Len(data_shape.numeric_columns) = 1
    /\ data_shape.has_time_series

ShapeFields ==
    {"num_columns", "num_rows", "has_time_series", "numeric_columns", "text_columns",
     "date_columns", "is_aggregated"}

\* C27: for every query result, one without rows included, the data shape
\* has the seven fields num_columns, num_rows, has_time_series,
\* numeric_columns, text_columns, date_columns and is_aggregated, with
\* num_columns the number of columns and num_rows the number of rows.
C27_ShapeFields ==
    Profiled =>
        /\ DOMAIN data_shape = ShapeFields
        /\ data_shape.num_columns = Len(kdata.columns)
        /\ data_shape.num_rows = Len(kdata.rows)

BaseFields == {"type", "data", "columns"}

\* C28: the chart config holds type, data and columns, data and columns
\* being the result's rows and columns unchanged, and besides them only the
\* fields of the selected type: kpi the label (first column) and the value
\* (the first row's value of it); line xAxis = first date column and yAxis =
\* all numeric columns; bar xAxis = first text column and yAxis = first
\* numeric column; scatter xAxis and yAxis = first and second numeric column;
\* table nothing more.
C28_TypeFields ==
    kpc = "built" =>
        /\ chart_config.raised = "None"
        /\ LET config == chart_config.config
               extra == DOMAIN config \ BaseFields
           IN /\ BaseFields \subseteq DOMAIN config
              /\ config.type = chart_type
              /\ config.data = kdata.rows
              /\ config.columns = kdata.columns
              /\ CASE chart_type = "kpi" ->
                        /\ extra = {"metric"}
                        /\ config.metric = [label |-> kdata.columns[1],
                                            value |-> FirstValue(kdata.columns[1])]
                   [] chart_type = "line" ->
                        /\ extra = {"xAxis", "yAxis"}
                        /\ data_shape.date_columns # <<>>
                        /\ config.xAxis = data_shape.date_columns[1]
                        /\ config.yAxis = data_shape.numeric_columns
                   [] chart_type = "bar" ->
                        /\ extra = {"xAxis", "yAxis"}
                        /\ data_shape.text_columns # <<>>
                        /\ data_shape.numeric_columns # <<>>
                        /\ config.xAxis = data_shape.text_columns[1]
                        /\ config.yAxis = data_shape.numeric_columns[1]
                   [] chart_type = "scatter" ->
                        /\ extra = {"xAxis", "yAxis"}
                        /\ Len(data_shape.numeric_columns) >= 2
                        /\ config.xAxis = data_shape.numeric_columns[1]
                        /\ config.yAxis = data_shape.numeric_columns[2]
                   [] chart_type = "table" -> extra = {}
                   [] OTHER -> TRUE

\* A bar chart whose text column is not the first column and whose numeric
\* column is not the last one.
C28_Witness ==
    /\ kpc = "built"
    /\ chart_type = "bar"
    /\ chart_config.raised = "None"
    /\ chart_config.config.xAxis # kdata.columns[1]
    /\ chart_config.config.yAxis # kdata.columns[Len(kdata.columns)]

\* C30: for every query result the executor can return (no rows and no
\* columns, a single column, NULL first values) analyze_data_shape,
\* select_chart_type and build_chart_config complete without raising, and
\* every xAxis, yAxis, labelColumn and valueColumn of the config names a
\* column of the result.
C30_PipelineTotal ==
    kpc = "built" =>
        /\ chart_config.raised = "None"
        /\ LET config == chart_config.config
               names == NamesOf(kdata.columns)
           IN /\ \A key \in {"xAxis", "labelColumn", "valueColumn"} \cap DOMAIN config :
                    config[key] \in names
              /\ "yAxis" \in DOMAIN config =>
                    IF chart_type = "line" THEN NamesOf(config.yAxis) \subseteq names
                    ELSE config.yAxis \in names

\* The result without rows and without columns went through the three steps.
C30_Witness ==
    /\ kpc = "built"
    /\ kdata.rows = <<>>
    /\ kdata.columns = <<>>
    /\ chart_config.raised = "None"
    /\ chart_config.config.type = "table"

(***************************************************************************)
(* What gets into the result cache.                                        *)
(***************************************************************************)
\* Call i executed its statement to the end: no rejection, no timeout, no
\* failure, and a result came back.
Succeeded(i) ==
    /\ calls[i].outcome = "executed"
    /\ calls[i].executed
    /\ ~calls[i].timedOut
    /\ calls[i].raised = "None"
    /\ validate_sql_safety(calls[i].input).safe

\* C29: only results of successful executions are written to the result
\* cache: every entry is the result of a call that executed its statement
\* successfully under that key; a call the gate rejected, or whose execution
\* timed out or failed, wrote nothing and returned nothing; and no call
\* returns a result for an SQL text the gate rejects, although the cache is
\* consulted before the gate.
C29_OnlySuccessCached ==
    /\ \A key \in DOMAIN cache :
          \E i \in CallIds :
              /\ Succeeded(i)
              /\ CacheKey(calls[i].input) = key
              /\ cache[key] = JsonDumps(calls[i].result)
    /\ \A i \in CallIds :
          /\ calls[i].wrote => Succeeded(i)
          /\ calls[i].outcome \in {"unsafe", "timeout", "error"} =>
                ~calls[i].wrote /\ calls[i].result = NoResult
          /\ ~validate_sql_safety(calls[i].input).safe =>
                /\ calls[i].outcome = "unsafe"
                /\ calls[i].result = NoResult
                /\ ~calls[i].executed
    /\ \A sql \in ExecInputs :
          ~validate_sql_safety(sql).safe => CacheKey(sql) \notin DOMAIN cache

\* A rejected call and a call whose statement was sent and then timed out or
\* failed have returned, and the cache holds nothing.
C29_Witness ==
    /\ \E i, j \in CallIds :
          /\ calls[i].outcome = "unsafe"
          /\ calls[j].outcome \in {"timeout", "error"}
          /\ calls[j].executed
    /\ DOMAIN cache = {}

====
